---- MODULE Spec2Model ----
(***************************************************************************)
(* Knowledge Base Proxy Lambda (agentcore/lambda/knowledge_base_proxy.py): *)
(* event normalization, tool dispatch, the four tool handlers and the      *)
(* response envelope, as a state machine over one invocation at a time.    *)
(*                                                                         *)
(* JSON values are records [k, s, n, m]: k is the Python type of the       *)
(* decoded value, s the characters of a str, n the value of an int (or the *)
(* length of a list), m the items of a dict.  Strings that the code takes  *)
(* apart (tool names, queries) are sequences of one-character strings.     *)
(***************************************************************************)
EXTENDS Integers, Sequences, FiniteSets, TLC

\* ------------------------------------------------------------------ bounds
\* An event carries at most MaxKeys of the keys the handler looks at.
MaxKeys == 3
\* Tool names over the alphabet {"_", "a"} have at most MaxNameLen characters.
MaxNameLen == 5
\* Each deployment script is run at most MaxRuns times against an account.
MaxRuns == 2

\* --------------------------------------------------------------- constants
DEFAULT_MAX_RESULTS == 5
DEFAULT_MAX_TOKENS == 2048
MAX_RESULTS_CAP == 25
MAX_TOKENS_CAP == 4096
DEFAULT_STATUS_CODE == 400
OK_STATUS_CODE == 200
THROTTLED_STATUS_CODE == 429
INTERNAL_STATUS_CODE == 500

\* ------------------------------------------------------------- JSON values
EmptyMap == [x \in {} |-> 0]
Str(s) == [k |-> "str", s |-> s, n |-> 0, m |-> EmptyMap]
Num(n) == [k |-> "int", s |-> <<>>, n |-> n, m |-> EmptyMap]
ListOf(n) == [k |-> "list", s |-> <<>>, n |-> n, m |-> EmptyMap]
Map(m) == [k |-> "map", s |-> <<>>, n |-> 0, m |-> m]
Null == [k |-> "null", s |-> <<>>, n |-> 0, m |-> EmptyMap]
\* A local that is not bound yet.
Unbound == [k |-> "unbound", s |-> <<>>, n |-> 0, m |-> EmptyMap]

\* Python truth value of a decoded JSON value (what `or` and `not` test).
Truthy(v) ==
    CASE v.k = "str" -> v.s # <<>>
      [] v.k = "int" -> v.n # 0
      [] v.k = "list" -> v.n > 0
      [] v.k = "map" -> DOMAIN v.m # {}
      [] OTHER -> FALSE

\* dict.get(key) and dict.get(key, default)
Get(d, key) == IF key \in DOMAIN d THEN d[key] ELSE Null
GetDefault(d, key, default) == IF key \in DOMAIN d THEN d[key] ELSE default
\* a or b
PyOr(a, b) == IF Truthy(a) THEN a ELSE b

\* ------------------------------------------------------------------ strings
S_query_knowledge_base == <<"q", "u", "e", "r", "y", "_", "k", "n", "o", "w", "l", "e", "d", "g", "e", "_", "b", "a", "s", "e">>
S_retrieve_and_generate == <<"r", "e", "t", "r", "i", "e", "v", "e", "_", "a", "n", "d", "_", "g", "e", "n", "e", "r", "a", "t", "e">>
S_list_sources == <<"l", "i", "s", "t", "_", "s", "o", "u", "r", "c", "e", "s">>
S_get_knowledge_base_info == <<"g", "e", "t", "_", "k", "n", "o", "w", "l", "e", "d", "g", "e", "_", "b", "a", "s", "e", "_", "i", "n", "f", "o">>
S_frobnicate == <<"f", "r", "o", "b", "n", "i", "c", "a", "t", "e">>
S_None == <<"N", "o", "n", "e">>
Delimiter == <<"_", "_", "_">>

\* Positions at which '___' occurs in s.
Occurrences(s) ==
    {i \in 1..(Len(s) - 2) : SubSeq(s, i, i + 2) = Delimiter}

\* '___' in s, for a str s
ContainsDelimiter(s) == Occurrences(s) # {}

\* Variant: what follows the last place at which '___' occurs in s
\* (s[s.rfind('___') + 3:]); s itself when '___' does not occur.
AfterLastOccurrence(s) ==
    IF Occurrences(s) = {} THEN s
    ELSE LET i == CHOOSE j \in Occurrences(s) : \A h \in Occurrences(s) : h <= j
         IN SubSeq(s, i + 3, Len(s))

\* s.split('___')[-1]: str.split scans from the left and takes occurrences
\* that do not overlap; the last piece is what follows the last one taken.
RECURSIVE SplitLast(_)
SplitLast(s) ==
    IF Occurrences(s) = {} THEN s
    ELSE LET i == CHOOSE j \in Occurrences(s) : \A h \in Occurrences(s) : j <= h
         IN SplitLast(SubSeq(s, i + 3, Len(s)))

\* s.strip(): leading and trailing whitespace removed.
RECURSIVE Strip(_)
Strip(s) ==
    IF s = <<>> THEN s
    ELSE IF Head(s) = " " THEN Strip(Tail(s))
    ELSE IF s[Len(s)] = " " THEN Strip(SubSeq(s, 1, Len(s) - 1))
    ELSE s

\* str(n) for a natural number n.
Digit(d) ==
    CASE d = 0 -> "0" [] d = 1 -> "1" [] d = 2 -> "2" [] d = 3 -> "3"
      [] d = 4 -> "4" [] d = 5 -> "5" [] d = 6 -> "6" [] d = 7 -> "7"
      [] d = 8 -> "8" [] OTHER -> "9"
RECURSIVE Decimal(_)
Decimal(n) ==
    IF n < 10 THEN <<Digit(n)>> ELSE Append(Decimal(n \div 10), Digit(n % 10))

\* What an f-string puts for {tool_name}: str(v) of the values that reach
\* the 'Unknown tool' message (a str is itself, None is 'None').
PyStr(v) ==
    CASE v.k = "str" -> v.s
      [] v.k = "int" -> Decimal(v.n)
      [] OTHER -> S_None

\* -------------------------------------------------------------- exceptions
\* A raised exception: its class and its str().  NoExc: nothing is raised.
NoExc == [type |-> "none", text |-> ""]
Exc(type, text) == [type |-> type, text |-> text]

\* The classes `except Exception` catches: every exception the handler's
\* own code or the client library raises derives from Exception.
ExceptionClasses ==
    {"TypeError", "AttributeError", "ValidationException",
     "ResourceNotFoundException", "ThrottlingException", "ClientError",
     "ParamValidationError"}
\* Variant: the clause names TypeError only.
CatchesTypeErrorOnly(e) == e.type = "TypeError"
Catches(e) == e.type \in ExceptionClasses

\* ---------------------------------------------------------------- messages
\* An error message: the literal text with its placeholders (fmt), and what
\* fills them: a tool name and the handler table's keys, or an exception's
\* text (detail).
Message(fmt, name, tools, detail) ==
    [fmt |-> fmt, name |-> name, tools |-> tools, detail |-> detail]
Plain(fmt) == Message(fmt, <<>>, <<>>, "")
WithDetail(fmt, detail) == Message(fmt, <<>>, <<>>, detail)

\* --------------------------------------------------------------- envelopes
\* A datetime, and datetime.isoformat().  Instants: what utcnow() may show.
DateTime(iso) == [iso |-> iso]
IsoFormat(d) == d.iso
Instants == {DateTime("2026-01-01T00:00:00"), DateTime("2026-01-01T00:00:01")}

\* json.dumps of a dict, given as its items in insertion order: the text is
\* the stream key, value, key, value, ...  json.loads reads the dict back
\* from the stream: its keys, and the value that follows each key.
RECURSIVE JsonDumps(_)
JsonDumps(items) ==
    IF items = <<>> THEN <<>>
    ELSE <<items[1][1], items[1][2]>> \o JsonDumps(Tail(items))
BodyKeys(body) == {body[2 * i - 1] : i \in 1..(Len(body) \div 2)}
BodyGet(body, key) ==
    body[2 * (CHOOSE i \in 1..(Len(body) \div 2) : body[2 * i - 1] = key)]

Headers == [ContentType |-> "application/json"]

\* Variant: the success envelope carries error_response's default status.
SuccessResponseWithDefaultStatus(data, now) ==
    [statusCode |-> DEFAULT_STATUS_CODE,
     body |-> JsonDumps(<< <<"success", TRUE>>, <<"data", data>>,
                           <<"timestamp", <<IsoFormat(now), "Z">> >> >>),
     headers |-> Headers]

success_response(data, now) ==
    [statusCode |-> OK_STATUS_CODE,
     body |-> JsonDumps(<< <<"success", TRUE>>, <<"data", data>>,
                           <<"timestamp", <<IsoFormat(now), "Z">> >> >>),
     headers |-> Headers]

\* Variant: the error body also carries a 'data' key.
ErrorResponseWithData(message, status_code, now) ==
    [statusCode |-> status_code,
     body |-> JsonDumps(<< <<"success", FALSE>>, <<"error", message>>,
                           <<"data", message>>, <<"timestamp", <<IsoFormat(now), "Z">> >> >>),
     headers |-> Headers]

error_response(message, status_code, now) ==
    [statusCode |-> status_code,
     body |-> JsonDumps(<< <<"success", FALSE>>, <<"error", message>>,
                           <<"timestamp", <<IsoFormat(now), "Z">> >> >>),
     headers |-> Headers]

NoResponse == [statusCode |-> 0, body |-> <<>>, headers |-> Headers]

\* ------------------------------------------------------------ handler table
\* handlers = {'query_knowledge_base': ..., ...}, in insertion order.
HandlerNames ==
    <<S_query_knowledge_base, S_retrieve_and_generate, S_list_sources,
      S_get_knowledge_base_info>>
HandlerOf(name) ==
    CASE name = S_query_knowledge_base -> "query_knowledge_base"
      [] name = S_retrieve_and_generate -> "retrieve_and_generate"
      [] name = S_list_sources -> "list_sources"
      [] OTHER -> "get_knowledge_base_info"
\* tool_name in handlers, for a hashable tool_name
InHandlers(v) == v.k = "str" /\ \E i \in DOMAIN HandlerNames : HandlerNames[i] = v.s
\* hash(v) raises TypeError for a list and for a dict
Hashable(v) == v.k \notin {"list", "map"}

\* ----------------------------------------------------------- normalization
\* event.get('tool_name') or event.get('name') or event.get('toolName', '')
ResolveName(e) ==
    PyOr(PyOr(Get(e, "tool_name"), Get(e, "name")),
         GetDefault(e, "toolName", Str(<<>>)))

\* Variant: the 'arguments' key is not among the keys read.
ResolveInputWithoutArguments(e) ==
    PyOr(PyOr(Get(e, "tool_input"), Get(e, "input")),
         GetDefault(e, "toolInput", Map(EmptyMap)))

\* event.get('tool_input') or event.get('input') or event.get('arguments')
\*   or event.get('toolInput', {})
ResolveInput(e) ==
    PyOr(PyOr(PyOr(Get(e, "tool_input"), Get(e, "input")), Get(e, "arguments")),
         GetDefault(e, "toolInput", Map(EmptyMap)))

\* Variant: 'action' is taken whenever the event carries it.
UsesActionWhenPresent(e, name) == "action" \in DOMAIN e
\* if not tool_name and 'action' in event
UsesAction(e, name) == ~Truthy(name) /\ "action" \in DOMAIN e

\* '___' in tool_name, for a truthy tool_name: a substring test on a str, a
\* membership test on a list (of numbers here) or on a dict's keys, and a
\* TypeError on a number.
DelimiterTestRaises(v) == v.k = "int"
DelimiterTest(v) ==
    CASE v.k = "str" -> ContainsDelimiter(v.s)
      [] v.k = "map" -> "___" \in DOMAIN v.m
      [] OTHER -> FALSE

\* Variant: arguments found under the argument keys are kept.
DirectInputKeepsArguments(e) ==
    PyOr(ResolveInput(e), GetDefault(e, "parameters", Map(EmptyMap)))
\* tool_input = event.get('parameters', {})
DirectInput(e) == GetDefault(e, "parameters", Map(EmptyMap))

\* Variant: only 'max_tokens' marks a retrieve_and_generate call.
InferredNameByMaxTokens(e) ==
    IF "query" \in DOMAIN e
    THEN IF "max_tokens" \in DOMAIN e
         THEN Str(S_retrieve_and_generate)
         ELSE Str(S_query_knowledge_base)
    ELSE Str(S_list_sources)

\* if 'query' in event: ... elif not any(k in event for k in [...]): ...
NameKeysAndAction == {"tool_name", "name", "action", "toolName"}
InferredName(e) ==
    IF "query" \in DOMAIN e
    THEN IF "max_tokens" \in DOMAIN e \/ "temperature" \in DOMAIN e
         THEN Str(S_retrieve_and_generate)
         ELSE Str(S_query_knowledge_base)
    ELSE Str(S_list_sources)
InfersFromShape(e) ==
    "query" \in DOMAIN e \/ DOMAIN e \cap NameKeysAndAction = {}

\* ------------------------------------------------------- external services
\* What a call to the knowledge-base service comes back with: a response
\* (fault "none") or a raised exception of the client library, with its text.
Faults ==
    {Exc("ValidationException", "validation failed"),
     Exc("ResourceNotFoundException", "no such knowledge base"),
     Exc("ThrottlingException", "rate exceeded"),
     Exc("ThrottlingException", "slow down"),
     Exc("ClientError", "access denied")}

\* retrievalResults of bedrock_agent_runtime.retrieve: items with a text, a
\* score (in units of 1/100000), a location and metadata.
\* Location objects: a provider tag with its entry. The entry is a mapping
\* with the uri/url, a mapping without it, or (tag present, no mapping under
\* it) null or a string; a location may carry two tags, an unknown tag or
\* none.
S3Location == [s3Location |-> Map([uri |-> "s3://b/k"])]
WebLocation == [webLocation |-> Map([url |-> "https://w/p"])]
NullLocation == [s3Location |-> Null]
Locations ==
    {S3Location, WebLocation,
     [confluenceLocation |-> Map([url |-> "https://c/p"])],
     [salesforceLocation |-> Map([url |-> "https://sf/p"])],
     [sharePointLocation |-> Map([url |-> "https://sp/p"])],
     [s3Location |-> Map([uri |-> "s3://b/k"]),
      webLocation |-> Map([url |-> "https://w/p"])],
     [s3Location |-> Map(EmptyMap)],
     NullLocation,
     [webLocation |-> Str(<<"x">>)],
     [customLocation |-> Map([id |-> "c-1"])],
     EmptyMap}
Item(location) ==
    [content |-> [text |-> "doc-1"], score |-> 91236,
     location |-> location, metadata |-> [source |-> "s3"]]
S3Item == Item(S3Location)
RetrieveResponses ==
    {<<>>} \cup {<<Item(location)>> : location \in Locations}
    \cup {<<S3Item, Item(WebLocation)>>, <<S3Item, Item(NullLocation)>>,
          <<S3Item, S3Item>>}

\* round(score, 4), on scores in units of 1/100000 (a last digit of 5 does
\* not occur here).
Round4(score) == ((score + 5) \div 10) * 10

\* d.get(field, '') on a location's provider entry.
GetField(d, field) == IF field \in DOMAIN d THEN d[field] ELSE ""

\* What evaluating a call comes to: the value returned or the exception
\* raised.
Returns(v) == [raised |-> FALSE, value |-> v, exc |-> NoExc]
Raises(e) == [raised |-> TRUE, value |-> "", exc |-> e]

\* location['s3Location'].get('uri', ''): .get exists on a mapping only.
ProviderField(entry, field) ==
    IF entry.k = "map"
    THEN Returns(GetField(entry.m, field))
    ELSE Raises(Exc("AttributeError", "object has no attribute 'get'"))

\* str(location): the rendering of the whole object.
Rendering(location) == [str |-> location]

\* Variant: the web tag is looked for before the s3 tag.
ExtractLocationWebFirst(location) ==
    IF "webLocation" \in DOMAIN location
    THEN ProviderField(location["webLocation"], "url")
    ELSE IF "s3Location" \in DOMAIN location
    THEN ProviderField(location["s3Location"], "uri")
    ELSE IF "confluenceLocation" \in DOMAIN location
    THEN ProviderField(location["confluenceLocation"], "url")
    ELSE IF "salesforceLocation" \in DOMAIN location
    THEN ProviderField(location["salesforceLocation"], "url")
    ELSE IF "sharePointLocation" \in DOMAIN location
    THEN ProviderField(location["sharePointLocation"], "url")
    ELSE Returns(Rendering(location))

\* extract_location (lines 421-433).
extract_location(location) ==
    IF "s3Location" \in DOMAIN location
    THEN ProviderField(location["s3Location"], "uri")
    ELSE IF "webLocation" \in DOMAIN location
    THEN ProviderField(location["webLocation"], "url")
    ELSE IF "confluenceLocation" \in DOMAIN location
    THEN ProviderField(location["confluenceLocation"], "url")
    ELSE IF "salesforceLocation" \in DOMAIN location
    THEN ProviderField(location["salesforceLocation"], "url")
    ELSE IF "sharePointLocation" \in DOMAIN location
    THEN ProviderField(location["sharePointLocation"], "url")
    ELSE Returns(Rendering(location))

\* The exception with which the loop over the items (or references) ends:
\* that of the first location extract_location raises on, NoExc when none.
ReshapeFault(items) ==
    LET failing == {i \in DOMAIN items : extract_location(items[i].location).raised}
    IN  IF failing = {} THEN NoExc
        ELSE extract_location(
                items[CHOOSE i \in failing : \A j \in failing : i <= j].location).exc

\* A referenced excerpt: its text, by identity and length in characters.
Excerpt(id, len) == [id |-> id, len |-> len]
CITATION_LIMIT == 500
\* Variant: an excerpt of exactly 500 characters gets the ellipsis too.
TruncateFromLimit(text) ==
    IF text.len >= CITATION_LIMIT
    THEN [id |-> text.id, len |-> CITATION_LIMIT, ellipsis |-> TRUE]
    ELSE [id |-> text.id, len |-> text.len, ellipsis |-> FALSE]

\* content_text[:500] + ('...' if len(content_text) > 500 else ''): the
\* first 500 characters of the text, and whether '...' follows them.
Truncate(text) ==
    IF text.len > CITATION_LIMIT
    THEN [id |-> text.id, len |-> CITATION_LIMIT, ellipsis |-> TRUE]
    ELSE [id |-> text.id, len |-> text.len, ellipsis |-> FALSE]

\* The response of bedrock_agent_runtime.retrieve_and_generate: the output
\* text and the citation groups, each with its retrieved references.
Reference(location) ==
    [content |-> [text |-> Excerpt("ref-1", 120)],
     location |-> location, metadata |-> [source |-> "web"]]
WebReference == Reference(WebLocation)
\* A reference whose excerpt is the text `id` of `len` characters.
Cited(id, len) ==
    [content |-> [text |-> Excerpt(id, len)],
     location |-> WebLocation, metadata |-> [source |-> "web"]]
GenerateResponses ==
    {[output |-> [text |-> "answer"], citations |-> <<>>],
     [output |-> [text |-> "answer"],
      citations |-> << [retrievedReferences |->
                            <<Cited("ref-2", 0), Cited("ref-3", CITATION_LIMIT)>>],
                       [retrievedReferences |-> <<>>],
                       [retrievedReferences |->
                            <<Cited("ref-4", CITATION_LIMIT + 1), Cited("ref-5", 2000)>>] >>],
     [output |-> [text |-> "answer"],
      citations |-> << [retrievedReferences |-> <<WebReference>>] >>],
     [output |-> [text |-> "answer"],
      citations |-> << [retrievedReferences |-> <<WebReference>>],
                       [retrievedReferences |-> <<Reference(NullLocation)>>] >>]}

\* dataSourceSummaries of bedrock_agent.list_data_sources
SourceResponses ==
    {<<>>,
     <<[dataSourceId |-> "ds-1", name |-> "docs", status |-> "AVAILABLE",
        updatedAt |-> DateTime("2025-06-01T00:00:00")]>>}
\* knowledgeBase of bedrock_agent.get_knowledge_base
InfoResponses ==
    {[knowledgeBaseId |-> "kb-1", name |-> "kb", description |-> "docs",
      status |-> "ACTIVE", createdAt |-> DateTime("2025-05-01T00:00:00"),
      updatedAt |-> DateTime("2025-06-01T00:00:00"),
      storageConfiguration |-> [type |-> "OPENSEARCH_SERVERLESS"],
      embeddingModelArn |-> <<"a", "r", "n", "/", "e">>]}

\* Configuration (lines 37-43), as the environment sets it.
KNOWLEDGE_BASE_ID == "OYBA7PFNNQ"
MODEL_ARN == <<"a", "r", "n", "/", "m">>

\* s.split('/')[-1]
RECURSIVE AfterLastSlash(_)
AfterLastSlash(s) ==
    IF \E i \in DOMAIN s : s[i] = "/"
    THEN AfterLastSlash(SubSeq(s, (CHOOSE i \in DOMAIN s :
                                      s[i] = "/" /\ \A j \in 1..(i - 1) : s[j] # "/") + 1,
                               Len(s)))
    ELSE s

\* temperature default 0.7: a float, in tenths
Tenths(n) == [k |-> "float", s |-> <<>>, n |-> n, m |-> EmptyMap]
DefaultTemperature == Tenths(7)

NoRequest == [api |-> "none"]
\* No answer of the external service: no call was issued, or the call raised.
NoReply == [api |-> "none"]
\* response = bedrock_agent_runtime.retrieve(...) and the like
Reply(api, value) == [api |-> api, value |-> value]

\* ------------------------------------------------------------------- events
NameKeys == {"tool_name", "name", "toolName"}
InputKeys == {"tool_input", "input", "arguments", "toolInput"}
EventKeys ==
    NameKeys \cup InputKeys \cup
    {"action", "parameters", "query", "max_tokens", "temperature"}

S_q == <<"q">>
S_blank == <<" ">>
NamespacedQuery == <<"T">> \o Delimiter \o S_query_knowledge_base

\* Values an event may carry under a tool-name key or under 'action'.
NameValues ==
    {Str(<<>>), Null, Str(S_list_sources), Str(NamespacedQuery),
     Str(S_frobnicate), Num(5), ListOf(1), ListOf(0)}
\* Values an event may carry under an argument key or under 'parameters'.
ArgsQ == Map([query |-> Str(S_q)])
ArgsQN == Map([query |-> Str(S_q), max_results |-> Num(30)])
ArgValues == {Map(EmptyMap), Null, ArgsQ, ArgsQN, Num(7)}

KeyValues(key) ==
    CASE key \in NameKeys \cup {"action"} -> NameValues
      [] key \in InputKeys \cup {"parameters"} -> ArgValues
      [] key = "query" -> {Str(S_q), Str(S_blank), Num(5)}
      [] key = "max_tokens" -> {Num(100), Num(5000)}
      [] OTHER -> {Num(1)}

\* Every dict over the keys K with a value of its key's kind under each.
RECURSIVE EventsOver(_)
EventsOver(K) ==
    IF K = {} THEN {EmptyMap}
    ELSE LET key == CHOOSE x \in K : TRUE
         IN {(key :> v) @@ e : v \in KeyValues(key), e \in EventsOver(K \ {key})}

\* Events of at most MaxKeys keys: the key sets, and the events over one.
KeySets == {S \in SUBSET EventKeys : Cardinality(S) <= MaxKeys}

\* Tool names as the gateway may frame them: every string of '_' and 'a' up
\* to MaxNameLen characters, the four tool names, and the tool names behind
\* a target prefix 'T' or 'T_'.
NameStrings ==
    UNION {[1..n -> {"_", "a"}] : n \in 0..MaxNameLen}
    \cup {HandlerNames[i] : i \in DOMAIN HandlerNames}
    \cup {<<"T">> \o Delimiter \o HandlerNames[i] : i \in DOMAIN HandlerNames}
    \cup {<<"T", "_">> \o Delimiter \o HandlerNames[i] : i \in DOMAIN HandlerNames}

\* Events that name a tool under one key, alone, beside a 'query' or beside
\* an 'action'.
NamedEvents ==
    {(key :> Str(s)) @@ rest :
        key \in NameKeys \cup {"action"}, s \in NameStrings,
        rest \in {EmptyMap, ("query" :> Str(S_q)),
                  ("action" :> Str(S_list_sources))}}

\* Values a caller may put under an argument of the two knowledge-base tools:
\* well-formed ones at, below and above the limits, and malformed ones.
ToolArgValues(key) ==
    CASE key = "query" -> {Str(S_q), Str(S_blank), Str(<<>>), Num(5), Null}
      [] key = "max_results" ->
            {Num(0), Num(0 - 1), Num(3), Num(MAX_RESULTS_CAP), Num(MAX_RESULTS_CAP + 1),
             Num(999), Str(<<"x">>), Null}
      [] key = "max_tokens" ->
            {Num(100), Num(MAX_TOKENS_CAP), Num(100000), Str(<<"x">>)}
      [] key = "temperature" -> {Tenths(2)}
      [] key = "model_arn" -> {Str(<<"a", "/", "x">>), Num(5)}
      [] OTHER -> {Map([source |-> Str(<<"s">>)]), Map(EmptyMap), Null}

\* Every argument mapping over the keys K.
RECURSIVE ArgsOver(_)
ArgsOver(K) ==
    IF K = {} THEN {EmptyMap}
    ELSE LET key == CHOOSE x \in K : TRUE
         IN {(key :> v) @@ a : v \in ToolArgValues(key), a \in ArgsOver(K \ {key})}

QueryArgKeys == {"query", "max_results", "filter"}
GenerateArgKeys == {"query", "max_tokens", "temperature", "model_arn"}

\* Calls of the two knowledge-base tools in the gateway's own format, with
\* every argument mapping over the tool's argument keys.
CallEvents ==
    {("tool_name" :> Str(S_query_knowledge_base)) @@ ("tool_input" :> Map(a)) :
        a \in UNION {ArgsOver(K) : K \in SUBSET QueryArgKeys}}
    \cup
    {("tool_name" :> Str(S_retrieve_and_generate)) @@ ("tool_input" :> Map(a)) :
        a \in UNION {ArgsOver(K) : K \in SUBSET GenerateArgKeys}}

\* The prefix the command-line client puts before a tool name
\* (mcp_cli.py, line 24), and the one of the gateway's example.
TARGET_PREFIX ==
    <<"K", "n", "o", "w", "l", "e", "d", "g", "e", "B", "a", "s", "e", "P", "r", "o", "x", "y", "T", "a", "r", "g", "e", "t", "_", "_", "_">>
KB_TARGET_PREFIX == <<"K", "B", "T", "a", "r", "g", "e", "t", "_", "_", "_">>

\* The tools/call requests of the command-line client, as events carrying
\* their 'name' and 'arguments': cmd_query (query, max_results), cmd_ask
\* (query, max_tokens) and cmd_list_sources (no arguments); and the call of
\* the example, with a query alone.
CliEvents ==
    {("name" :> Str(TARGET_PREFIX \o S_query_knowledge_base))
        @@ ("arguments" :> Map([query |-> q, max_results |-> n])) :
        q \in {Str(S_q), Str(S_blank)}, n \in {Num(0), Num(DEFAULT_MAX_RESULTS), Num(30)}}
    \cup
    {("name" :> Str(TARGET_PREFIX \o S_retrieve_and_generate))
        @@ ("arguments" :> Map([query |-> q, max_tokens |-> n])) :
        q \in {Str(S_q), Str(S_blank)}, n \in {Num(1024), Num(5000)}}
    \cup
    {("name" :> Str(TARGET_PREFIX \o S_list_sources)) @@ ("arguments" :> Map(EmptyMap)),
     ("name" :> Str(KB_TARGET_PREFIX \o S_query_knowledge_base)) @@ ("arguments" :> ArgsQ)}

\* The tools the gateway advertises (create_gateway.py, TOOL_DEFINITIONS):
\* the properties of each tool's inputSchema and the required ones.
TOOL_DEFINITIONS ==
    [query_knowledge_base |->
        [properties |-> {"query", "max_results"}, required |-> {"query"}],
     retrieve_and_generate |->
        [properties |-> {"query", "max_tokens"}, required |-> {"query"}],
     list_sources |-> [properties |-> {}, required |-> {}],
     get_knowledge_base_info |-> [properties |-> {}, required |-> {}]]

\* Values of a property's declared type: 'query' is a string, 'max_results'
\* and 'max_tokens' are integers.
SchemaValues(key) ==
    IF key = "query" THEN {Str(S_q), Str(S_blank)}
    ELSE IF key = "max_results" THEN {Num(1), Num(DEFAULT_MAX_RESULTS), Num(MAX_RESULTS_CAP)}
    ELSE {Num(100), Num(2048)}

\* Every mapping over the keys K with a value of the declared type under each.
RECURSIVE SchemaArgsOver(_)
SchemaArgsOver(K) ==
    IF K = {} THEN {EmptyMap}
    ELSE LET key == CHOOSE x \in K : TRUE
         IN {(key :> v) @@ a : v \in SchemaValues(key), a \in SchemaArgsOver(K \ {key})}

\* The argument sets a tool's inputSchema permits: the required properties
\* and any of the others.
SchemaArguments(tool) ==
    UNION {SchemaArgsOver(K) :
            K \in {P \in SUBSET TOOL_DEFINITIONS[tool].properties :
                        TOOL_DEFINITIONS[tool].required \subseteq P}}

\* Events of a gateway that forwards the arguments of a call alone, with no
\* name key (handler(), lines 97-98).
ForwardedEvents == UNION {SchemaArguments(tool) : tool \in DOMAIN TOOL_DEFINITIONS}

\* No earlier invocation is remembered.
NoEarlier ==
    [seen |-> FALSE, event |-> EmptyMap, reply |-> NoReply, fault |-> NoExc,
     envelope |-> NoResponse]

\* -------------------------------------------------------------------- state
VARIABLES
    pc,          \* where the invocation is: idle, a step of handler(), done
    event,       \* the invocation event
    tool_name,   \* handler()'s local tool_name
    tool_input,  \* handler()'s local tool_input
    stripped,    \* tool_name as it is on reaching line 97 (Unbound before)
    dispatched,  \* the tool handler handler() called, or "none"
    exc,         \* the exception raised during this invocation, or NoExc
    request,     \* the request of the external call issued, or NoRequest
    calls,       \* external calls issued during this invocation
    reply,       \* what the external call answered, or NoReply
    response,    \* the envelope handler() returns, or NoResponse
    propagated,  \* an exception left handler()
    earlier      \* an earlier invocation as observed from outside, or NoEarlier

\* setup_complete.py: the account it runs against and a run of main().
VARIABLES
    index_exists,    \* the OpenSearch index exists in the collection
    kb_exists,       \* a knowledge base named DocumentKnowledgeBase exists
    ds_exists,       \* a data source named S3DocumentSource exists
    setup_pc,        \* where main() is: idle, a step, exited
    index_result,    \* what create_opensearch_index returned, or "unset"
    kb_id,           \* main()'s local kb_id (Unbound before step 2)
    ds_id,           \* main()'s local ds_id (Unbound before step 3)
    setup_calls,     \* the service calls of this run, in order
    summary_printed, \* the completion summary was printed
    setup_exit,      \* the exit status of the process, or "running"
    setup_runs       \* runs of the script started so far

setup_vars ==
    <<index_exists, kb_exists, ds_exists, setup_pc, index_result, kb_id, ds_id,
      setup_calls, summary_printed, setup_exit, setup_runs>>

\* create_gateway.py: the account it runs against and a run of main().
VARIABLES
    role,             \* AgentCoreGatewayServiceRole: absent, foreign, script
    role_policy,      \* the role has the inline policy AgentCoreGatewayPolicy
    gateways,         \* names of the gateways of the account
    targets,          \* names of the targets of KnowledgeBaseGateway
    gateway_pc,       \* where main() is: idle, a step, exited
    gateway_role_arn, \* main()'s local gateway_role_arn, or "unset"
    gateway_id,       \* main()'s local gateway_id
    listed,           \* names list_gateways reported at step 2
    existing_targets, \* names list_gateway_targets reported at step 5
    conflicts,        \* calls of this run that raised ConflictException
    gateway_calls,    \* the service calls of this run, in order
    gateway_exit,     \* the exit status of the process, or "running"
    gateway_runs      \* runs of the script started so far

gateway_vars ==
    <<role, role_policy, gateways, targets, gateway_pc, gateway_role_arn,
      gateway_id, listed, existing_targets, conflicts, gateway_calls,
      gateway_exit, gateway_runs>>

script_vars == <<setup_vars, gateway_vars>>

vars ==
    <<pc, event, tool_name, tool_input, stripped, dispatched, exc, request,
      calls, reply, response, propagated, earlier, script_vars>>

\* No run of setup_complete.py was started.
SetupIdle ==
    /\ setup_pc = "idle"
    /\ index_result = "unset"
    /\ kb_id = Unbound
    /\ ds_id = Unbound
    /\ setup_calls = <<>>
    /\ summary_printed = FALSE
    /\ setup_exit = "running"
    /\ setup_runs = 0

\* No run of create_gateway.py was started.
GatewayIdle ==
    /\ gateway_pc = "idle"
    /\ gateway_role_arn = "unset"
    /\ gateway_id = Null
    /\ listed = {}
    /\ existing_targets = {}
    /\ conflicts = {}
    /\ gateway_calls = <<>>
    /\ gateway_exit = "running"
    /\ gateway_runs = 0

\* An account in which neither script has created anything.
FreshAccount ==
    /\ index_exists = FALSE
    /\ kb_exists = FALSE
    /\ ds_exists = FALSE
    /\ role = "absent"
    /\ role_policy = FALSE
    /\ gateways = {}
    /\ targets = {}

\* No invocation of the proxy was received.
HandlerIdle ==
    /\ pc = "idle"
    /\ event = EmptyMap
    /\ tool_name = Str(<<>>)
    /\ tool_input = Map(EmptyMap)
    /\ stripped = Unbound
    /\ dispatched = "none"
    /\ exc = NoExc
    /\ request = NoRequest
    /\ calls = 0
    /\ reply = NoReply
    /\ response = NoResponse
    /\ propagated = FALSE
    /\ earlier = NoEarlier

Init == HandlerIdle /\ SetupIdle /\ GatewayIdle /\ FreshAccount

\* The next step of the try body, with the locals as given.
Goto(next, name, input) ==
    /\ pc' = next
    /\ tool_name' = name
    /\ tool_input' = input
    /\ UNCHANGED <<event, stripped, dispatched, exc, request, calls, reply, response, propagated, earlier, script_vars>>

\* raise e
Raise(e) ==
    /\ pc' = "except"
    /\ exc' = e
    /\ UNCHANGED <<event, tool_name, tool_input, stripped, dispatched, request,
                   calls, reply, response, propagated, earlier, script_vars>>

\* return envelope
ReturnEnvelope(envelope) ==
    /\ pc' = "done"
    /\ response' = envelope
    /\ UNCHANGED <<event, tool_name, tool_input, stripped, dispatched, exc,
                   request, calls, reply, propagated, earlier, script_vars>>

\* Variant: a call that raised is issued once more before the handler
\* answers.
CallWithRetry(req, answer, fault, envelope) ==
    /\ pc' = "done"
    /\ request' = req
    /\ calls' = calls + (IF answer = NoReply THEN 2 ELSE 1)
    /\ reply' = answer
    /\ exc' = fault
    /\ response' = envelope
    /\ UNCHANGED <<event, tool_name, tool_input, stripped, dispatched, propagated, earlier, script_vars>>

\* The external call: the request sent, the exception the call raised (or
\* NoExc), and what the handler returns for the service's answer.
Call(req, answer, fault, envelope) ==
    /\ pc' = "done"
    /\ request' = req
    /\ calls' = calls + 1
    /\ reply' = answer
    /\ exc' = fault
    /\ response' = envelope
    /\ UNCHANGED <<event, tool_name, tool_input, stripped, dispatched, propagated, earlier, script_vars>>

\* ---------------------------------------------------------------- handler()
\* The invocation arrives; tool name and arguments are read from the
\* synonymous keys (lines 70-86).
\* Variant: tool_input is bound only when the event has an argument key,
\* and is otherwise what an invocation before left in it.
AcceptKeepingInput(e) ==
    /\ event' = e
    /\ tool_name' = ResolveName(e)
    /\ tool_input' = IF DOMAIN e \cap InputKeys = {} THEN tool_input ELSE ResolveInput(e)
    /\ pc' = "direct"
    /\ stripped' = Unbound
    /\ dispatched' = "none"
    /\ exc' = NoExc
    /\ request' = NoRequest
    /\ calls' = 0
    /\ reply' = NoReply
    /\ response' = NoResponse
    /\ propagated' = FALSE
    /\ UNCHANGED <<earlier, script_vars>>

\* handler(event, context) is entered: its locals are bound from the event
\* alone (lines 79-80) and nothing of an invocation before is read.
Accept(e) ==
    /\ event' = e
    /\ tool_name' = ResolveName(e)
    /\ tool_input' = ResolveInput(e)
    /\ pc' = "direct"
    /\ stripped' = Unbound
    /\ dispatched' = "none"
    /\ exc' = NoExc
    /\ request' = NoRequest
    /\ calls' = 0
    /\ reply' = NoReply
    /\ response' = NoResponse
    /\ propagated' = FALSE
    /\ UNCHANGED <<earlier, script_vars>>

Receive ==
    /\ pc = "idle"
    /\ \E K \in KeySets \cup {{"named"}, {"call"}, {"cli"}, {"forwarded"}} :
       \E e \in (IF K = {"named"} THEN NamedEvents
                ELSE IF K = {"call"} THEN CallEvents
                ELSE IF K = {"cli"} THEN CliEvents
                ELSE IF K = {"forwarded"} THEN ForwardedEvents
                ELSE EventsOver(K)) :
            Accept(e)

\* Direct invocation format: action/parameters (lines 88-91).
DirectInvocation ==
    /\ pc = "direct"
    /\ IF UsesAction(event, tool_name)
       THEN Goto("namespace", event["action"], DirectInput(event))
       ELSE Goto("namespace", tool_name, tool_input)

\* Namespaced tool names, "TargetName___tool_name" (lines 93-95).
StripNamespace ==
    /\ pc = "namespace"
    /\ IF Truthy(tool_name) /\ DelimiterTestRaises(tool_name)
       THEN Raise(Exc("TypeError", "argument of type 'int' is not iterable"))
       ELSE IF Truthy(tool_name) /\ DelimiterTest(tool_name) /\ tool_name.k # "str"
       THEN Raise(Exc("AttributeError", "'dict' object has no attribute 'split'"))
       ELSE LET name == IF Truthy(tool_name) /\ DelimiterTest(tool_name)
                        THEN Str(SplitLast(tool_name.s))
                        ELSE tool_name
            IN  /\ pc' = "infer"
                /\ tool_name' = name
                /\ stripped' = name
                /\ UNCHANGED <<event, tool_input, dispatched, exc, request, calls, reply,
                               response, propagated, earlier, script_vars>>

\* No tool name: infer the tool from the shape of the event (lines 97-113).
InferShape ==
    /\ pc = "infer"
    /\ IF ~Truthy(tool_name) /\ InfersFromShape(event)
       THEN Goto("dispatch", InferredName(event), Map(event))
       ELSE Goto("dispatch", tool_name, tool_input)

UnknownTool(name) ==
    Message("Unknown tool: '{tool_name}'. Available tools: {list(handlers.keys())}",
            PyStr(name), HandlerNames, "")

\* Route to the handler, or answer 'Unknown tool' (lines 115-131).
Dispatch ==
    /\ pc = "dispatch"
    /\ IF ~Hashable(tool_name)
       THEN Raise(Exc("TypeError", "unhashable type"))
       ELSE IF InHandlers(tool_name)
       THEN /\ pc' = HandlerOf(tool_name.s)
            /\ dispatched' = HandlerOf(tool_name.s)
            /\ UNCHANGED <<event, tool_name, tool_input, stripped, exc, request,
                           calls, reply, response, propagated, earlier, script_vars>>
       ELSE \E now \in Instants :
                ReturnEnvelope(error_response(UnknownTool(tool_name),
                                              DEFAULT_STATUS_CODE, now))

\* except Exception as e: return error_response(str(e), status_code=500)
\* (lines 133-135); an exception the clause does not catch leaves handler().
TopLevelExcept ==
    /\ pc = "except"
    /\ IF Catches(exc)
       THEN \E now \in Instants :
                ReturnEnvelope(error_response(WithDetail("{str(e)}", exc.text),
                                              INTERNAL_STATUS_CODE, now))
       ELSE /\ pc' = "done"
            /\ propagated' = TRUE
            /\ UNCHANGED <<event, tool_name, tool_input, stripped, dispatched, exc,
                           request, calls, reply, response, earlier, script_vars>>

\* handler() is left; the next invocation may arrive.
Return ==
    /\ pc = "done"
    /\ pc' = "idle"
    /\ event' = EmptyMap
    /\ tool_name' = Str(<<>>)
    /\ tool_input' = Map(EmptyMap)
    /\ stripped' = Unbound
    /\ dispatched' = "none"
    /\ exc' = NoExc
    /\ request' = NoRequest
    /\ calls' = 0
    /\ reply' = NoReply
    /\ response' = NoResponse
    /\ propagated' = FALSE
    /\ UNCHANGED <<earlier, script_vars>>

\* ------------------------------------------------------------ tool handlers
QueryRequired == Plain("The 'query' parameter is required and cannot be empty")

\* Variant: the generic failure message does not carry the exception's text.
RetrieveFaultHidingText(fault, now) ==
    CASE fault.type = "ValidationException" ->
            error_response(WithDetail("Invalid request: {str(e)}", fault.text),
                           DEFAULT_STATUS_CODE, now)
      [] fault.type = "ResourceNotFoundException" ->
            error_response(WithDetail("Knowledge base not found: {str(e)}", fault.text),
                           DEFAULT_STATUS_CODE, now)
      [] OTHER ->
            error_response(Plain("Failed to retrieve from knowledge base: {str(e)}"),
                           DEFAULT_STATUS_CODE, now)

\* What a handler returns when the external call raised `fault`: the except
\* clauses of query_knowledge_base (lines 224-230).
RetrieveFault(fault, now) ==
    CASE fault.type = "ValidationException" ->
            error_response(WithDetail("Invalid request: {str(e)}", fault.text),
                           DEFAULT_STATUS_CODE, now)
      [] fault.type = "ResourceNotFoundException" ->
            error_response(WithDetail("Knowledge base not found: {str(e)}", fault.text),
                           DEFAULT_STATUS_CODE, now)
      [] OTHER ->
            error_response(WithDetail("Failed to retrieve from knowledge base: {str(e)}",
                                      fault.text),
                           DEFAULT_STATUS_CODE, now)

\* Variant: no clause of its own for the rate-limit fault.
GenerateFaultWithoutThrottling(fault, now) ==
    CASE fault.type = "ValidationException" ->
            error_response(WithDetail("Invalid request: {str(e)}", fault.text),
                           DEFAULT_STATUS_CODE, now)
      [] OTHER ->
            error_response(WithDetail("Failed to generate response: {str(e)}", fault.text),
                           DEFAULT_STATUS_CODE, now)

\* The except clauses of retrieve_and_generate (lines 337-343).
GenerateFault(fault, now) ==
    CASE fault.type = "ValidationException" ->
            error_response(WithDetail("Invalid request: {str(e)}", fault.text),
                           DEFAULT_STATUS_CODE, now)
      [] fault.type = "ThrottlingException" ->
            error_response(Plain("Service is busy, please try again in a moment"),
                           THROTTLED_STATUS_CODE, now)
      [] OTHER ->
            error_response(WithDetail("Failed to generate response: {str(e)}", fault.text),
                           DEFAULT_STATUS_CODE, now)

\* min(a, b) on numbers
PyMin(a, b) == IF b < a THEN b ELSE a

\* Variant: the caller's max_results as it is, without the cap.
ResultLimitUncapped(params) ==
    GetDefault(params, "max_results", Num(DEFAULT_MAX_RESULTS)).n

\* min(params.get('max_results', DEFAULT_MAX_RESULTS), 25), for a number
\* (line 158).
ResultLimit(params) ==
    PyMin(GetDefault(params, "max_results", Num(DEFAULT_MAX_RESULTS)).n, MAX_RESULTS_CAP)

\* Variant: the default is sent whenever max_tokens is above the cap.
TokenLimitFallingBack(params) ==
    LET n == GetDefault(params, "max_tokens", Num(DEFAULT_MAX_TOKENS)).n
    IN  IF n > MAX_TOKENS_CAP THEN DEFAULT_MAX_TOKENS ELSE n

\* min(params.get('max_tokens', DEFAULT_MAX_TOKENS), 4096), for a number
\* (line 259).
TokenLimit(params) ==
    PyMin(GetDefault(params, "max_tokens", Num(DEFAULT_MAX_TOKENS)).n, MAX_TOKENS_CAP)

\* The payload of query_knowledge_base (lines 186-222).
RetrieveData(items, query) ==
    [results |-> [i \in DOMAIN items |->
                    [content |-> items[i].content.text,
                     score |-> Round4(items[i].score),
                     location |-> extract_location(items[i].location).value,
                     metadata |-> items[i].metadata]],
     count |-> Len(items),
     query |-> query,
     knowledge_base_id |-> KNOWLEDGE_BASE_ID]

\* query_knowledge_base: arguments (lines 157-181), then the call and the
\* reshaping of its result (lines 183-230).
query_knowledge_base ==
    /\ pc = "query_knowledge_base"
    /\ IF tool_input.k # "map"
       THEN Raise(Exc("AttributeError", "object has no attribute 'get'"))
       ELSE
       LET params == tool_input.m
           q == GetDefault(params, "query", Str(<<>>))
           mr == GetDefault(params, "max_results", Num(DEFAULT_MAX_RESULTS))
           metadata_filter == Get(params, "filter")
       IN  IF q.k # "str"
           THEN Raise(Exc("AttributeError", "object has no attribute 'strip'"))
           ELSE IF mr.k # "int"
           THEN Raise(Exc("TypeError", "'<' not supported"))
           ELSE
           LET query == Strip(q.s)
               max_results == ResultLimit(params)
               req == [api |-> "retrieve",
                       knowledgeBaseId |-> KNOWLEDGE_BASE_ID,
                       text |-> query,
                       numberOfResults |-> max_results,
                       hasFilter |-> Truthy(metadata_filter),
                       filter |-> metadata_filter]
           IN  IF query = <<>>
               THEN \E now \in Instants :
                        ReturnEnvelope(error_response(QueryRequired,
                                                      DEFAULT_STATUS_CODE, now))
               ELSE \E now \in Instants :
                        \/ \E items \in RetrieveResponses :
                              LET e == ReshapeFault(items)
                              IN  Call(req, Reply("retrieve", items), e,
                                       IF e = NoExc
                                       THEN success_response(RetrieveData(items, query), now)
                                       ELSE RetrieveFault(e, now))
                        \/ \E fault \in Faults :
                              Call(req, NoReply, fault, RetrieveFault(fault, now))

\* The references of all citation groups, in order (lines 291-299).
RECURSIVE Flatten(_)
Flatten(groups) ==
    IF groups = <<>> THEN <<>>
    ELSE groups[1].retrievedReferences \o Flatten(Tail(groups))

\* The payload of retrieve_and_generate (lines 288-335).
GenerateData(answer, query, model_arn) ==
    LET refs == Flatten(answer.citations)
        citations == [i \in DOMAIN refs |->
                        [content |-> Truncate(refs[i].content.text),
                         location |-> extract_location(refs[i].location).value,
                         metadata |-> refs[i].metadata]]
    IN  [answer |-> answer.output.text,
         citations |-> citations,
         citation_count |-> Len(citations),
         query |-> query,
         model |-> AfterLastSlash(model_arn)]

\* model_name = model_arn.split('/')[-1] if '/' in model_arn else model_arn
\* (line 304): '/' in model_arn raises TypeError for a model_arn that is no
\* container (a number, None); it is evaluated after the answer was
\* received and reshaped.
ModelNameFault(model_arn) ==
    IF model_arn.k \in {"int", "float", "null"}
    THEN Exc("TypeError", "argument of type is not iterable")
    ELSE NoExc

\* What the client library may raise for this modelArn instead of sending
\* the request: it validates the parameters' types, and modelArn is a string.
RequestFaults(model_arn) ==
    IF model_arn.k = "str" THEN {}
    ELSE {Exc("ParamValidationError", "Invalid type for parameter modelArn")}

\* retrieve_and_generate: arguments (lines 257-263), then the call and the
\* reshaping of its result (lines 267-343); model_arn is handed to the
\* client as it is.
retrieve_and_generate ==
    /\ pc = "retrieve_and_generate"
    /\ IF tool_input.k # "map"
       THEN Raise(Exc("AttributeError", "object has no attribute 'get'"))
       ELSE
       LET params == tool_input.m
           q == GetDefault(params, "query", Str(<<>>))
           model_arn == GetDefault(params, "model_arn", Str(MODEL_ARN))
           mt == GetDefault(params, "max_tokens", Num(DEFAULT_MAX_TOKENS))
           temperature == GetDefault(params, "temperature", DefaultTemperature)
       IN  IF q.k # "str"
           THEN Raise(Exc("AttributeError", "object has no attribute 'strip'"))
           ELSE IF mt.k # "int"
           THEN Raise(Exc("TypeError", "'<' not supported"))
           ELSE
           LET query == Strip(q.s)
               max_tokens == TokenLimit(params)
               req == [api |-> "retrieve_and_generate",
                       knowledgeBaseId |-> KNOWLEDGE_BASE_ID,
                       text |-> query,
                       modelArn |-> model_arn,
                       maxTokens |-> max_tokens,
                       temperature |-> temperature]
           IN  IF query = <<>>
               THEN \E now \in Instants :
                        ReturnEnvelope(error_response(QueryRequired,
                                                      DEFAULT_STATUS_CODE, now))
               ELSE \E now \in Instants :
                        \/ \E answer \in GenerateResponses :
                              LET reshaping == ReshapeFault(Flatten(answer.citations))
                                  e == IF reshaping # NoExc THEN reshaping
                                       ELSE ModelNameFault(model_arn)
                              IN  Call(req, Reply("retrieve_and_generate", answer), e,
                                       IF e = NoExc
                                       THEN success_response(
                                                GenerateData(answer, query, model_arn.s), now)
                                       ELSE GenerateFault(e, now))
                        \/ \E fault \in Faults \cup RequestFaults(model_arn) :
                              Call(req, NoReply, fault, GenerateFault(fault, now))

\* The payload of list_sources (lines 363-378).
SourcesData(summaries) ==
    [knowledge_base_id |-> KNOWLEDGE_BASE_ID,
     sources |-> [i \in DOMAIN summaries |->
                    [id |-> summaries[i].dataSourceId,
                     name |-> summaries[i].name,
                     status |-> summaries[i].status,
                     updated_at |-> IsoFormat(summaries[i].updatedAt),
                     description |-> GetField(summaries[i], "description")]],
     count |-> Len(summaries)]

\* list_sources (lines 356-382): params is not read.
list_sources ==
    /\ pc = "list_sources"
    /\ LET req == [api |-> "list_data_sources", knowledgeBaseId |-> KNOWLEDGE_BASE_ID]
       IN  \E now \in Instants :
           \/ \E summaries \in SourceResponses :
                 Call(req, Reply("list_data_sources", summaries), NoExc,
                      success_response(SourcesData(summaries), now))
           \/ \E fault \in Faults :
                 Call(req, NoReply, fault, error_response(
                        WithDetail("Failed to list sources: {str(e)}", fault.text),
                        DEFAULT_STATUS_CODE, now))

\* The payload of get_knowledge_base_info (lines 401-414).
InfoData(kb) ==
    [id |-> kb.knowledgeBaseId,
     name |-> kb.name,
     description |-> kb.description,
     status |-> kb.status,
     created_at |-> IsoFormat(kb.createdAt),
     updated_at |-> IsoFormat(kb.updatedAt),
     storage_type |-> kb.storageConfiguration.type,
     embedding_model |-> AfterLastSlash(kb.embeddingModelArn)]

\* get_knowledge_base_info (lines 394-418): params is not read.
get_knowledge_base_info ==
    /\ pc = "get_knowledge_base_info"
    /\ LET req == [api |-> "get_knowledge_base", knowledgeBaseId |-> KNOWLEDGE_BASE_ID]
       IN  \E now \in Instants :
           \/ \E kb \in InfoResponses :
                 Call(req, Reply("get_knowledge_base", kb), NoExc,
                      success_response(InfoData(kb), now))
           \/ \E fault \in Faults :
                 Call(req, NoReply, fault, error_response(
                        WithDetail("Failed to get knowledge base info: {str(e)}", fault.text),
                        DEFAULT_STATUS_CODE, now))

\* ------------------------------------------------------------ specification
Next ==
    \/ Receive
    \/ DirectInvocation
    \/ StripNamespace
    \/ InferShape
    \/ Dispatch
    \/ query_knowledge_base
    \/ retrieve_and_generate
    \/ list_sources
    \/ get_knowledge_base_info
    \/ TopLevelExcept
    \/ Return

Spec == Init /\ [][Next]_vars

\* --------------------------------------------- a sequence of invocations
\* Events that arrive again and again, in any order: one for each handler,
\* a second query, an unknown tool, a name that faults, and a call without
\* arguments.
RepeatedEvents ==
    {EmptyMap,
     ("tool_name" :> Str(S_get_knowledge_base_info)),
     ("tool_name" :> Str(S_query_knowledge_base)) @@ ("tool_input" :> ArgsQ),
     ("tool_name" :> Str(S_query_knowledge_base))
        @@ ("tool_input" :> Map([query |-> Str(<<"q", "2">>)])),
     ("tool_name" :> Str(S_query_knowledge_base)),
     ("query" :> Str(S_q)) @@ ("max_tokens" :> Num(100)),
     ("tool_name" :> Str(S_frobnicate)),
     ("tool_name" :> Num(5))}

ReceiveAgain ==
    /\ pc = "idle"
    /\ \E e \in RepeatedEvents : Accept(e)

\* The envelope without the value of its body's 'timestamp'.
WithoutTimestamp(envelope) ==
    [statusCode |-> envelope.statusCode,
     headers |-> envelope.headers,
     body |-> [i \in DOMAIN envelope.body |->
                 IF i % 2 = 0 /\ envelope.body[i - 1] = "timestamp"
                 THEN "" ELSE envelope.body[i]]]

\* The fault the external call of this invocation raised, NoExc when it
\* answered or was not issued.
ServiceFault == IF calls = 1 /\ reply = NoReply THEN exc ELSE NoExc

\* What is seen of this invocation from outside: the event, what the
\* external service answered, and the envelope returned.
Observed ==
    [seen |-> TRUE, event |-> event, reply |-> reply, fault |-> ServiceFault,
     envelope |-> WithoutTimestamp(response)]

\* handler() is left. Its locals are not touched: the next invocation binds
\* them anew. This invocation may be the one remembered from now on.
ReturnRemembering ==
    /\ pc = "done"
    /\ pc' = "idle"
    /\ earlier' \in {earlier, Observed}
    /\ event' = EmptyMap
    /\ stripped' = Unbound
    /\ dispatched' = "none"
    /\ exc' = NoExc
    /\ request' = NoRequest
    /\ calls' = 0
    /\ reply' = NoReply
    /\ response' = NoResponse
    /\ propagated' = FALSE
    /\ UNCHANGED <<tool_name, tool_input, script_vars>>

IndependenceNext ==
    \/ ReceiveAgain
    \/ DirectInvocation
    \/ StripNamespace
    \/ InferShape
    \/ Dispatch
    \/ query_knowledge_base
    \/ retrieve_and_generate
    \/ list_sources
    \/ get_knowledge_base_info
    \/ TopLevelExcept
    \/ ReturnRemembering

IndependenceSpec == Init /\ [][IndependenceNext]_vars

\* ------------------------------------------------------- setup_complete.py
\* The identifiers the service answers with.
KB_ID == Str(<<"K", "B", "1">>)
DS_ID == Str(<<"D", "S", "1">>)

handler_vars ==
    <<pc, event, tool_name, tool_input, stripped, dispatched, exc, request,
      calls, reply, response, propagated, earlier>>

\* The process ends with this status (sys.exit, or main() returning).
SetupExit(status) ==
    /\ setup_pc' = "exited"
    /\ setup_exit' = status

\* An exception leaves main(): the handler of the script's last lines prints
\* it and exits with status 1.
SetupCrash == SetupExit(1)

\* python setup_complete.py: a run starts with fresh locals.
SetupStart ==
    /\ setup_pc \in {"idle", "exited"}
    /\ setup_runs < MaxRuns
    /\ setup_runs' = setup_runs + 1
    /\ setup_pc' = "outputs"
    /\ index_result' = "unset"
    /\ kb_id' = Unbound
    /\ ds_id' = Unbound
    /\ setup_calls' = <<>>
    /\ summary_printed' = FALSE
    /\ setup_exit' = "running"
    /\ UNCHANGED <<index_exists, kb_exists, ds_exists, handler_vars, gateway_vars>>

\* outputs = get_stack_outputs() and the four outputs[...] reads: the stack
\* is described, or the call or a missing output key raises.
get_stack_outputs ==
    /\ setup_pc = "outputs"
    /\ setup_calls' = Append(setup_calls, "describe_stacks")
    /\ \/ /\ setup_pc' = "index"
          /\ UNCHANGED setup_exit
       \/ SetupCrash
    /\ UNCHANGED <<index_exists, kb_exists, ds_exists, index_result, kb_id, ds_id,
                   summary_printed, setup_runs, handler_vars, gateway_vars>>

\* create_opensearch_index(): True when the index exists or was created,
\* False when indices.exists or indices.create raised; building the client
\* (before the try) may raise as well.
create_opensearch_index ==
    /\ setup_pc = "index"
    /\ \/ /\ setup_calls' = setup_calls
          /\ SetupCrash
          /\ UNCHANGED <<index_exists, index_result>>
       \/ /\ setup_calls' = Append(setup_calls, "indices.exists")
          /\ setup_pc' = "index_returned"
          /\ \/ index_exists /\ index_result' = "True"
             \/ index_result' = "False"
          /\ UNCHANGED <<index_exists, setup_exit>>
       \/ /\ ~index_exists
          /\ setup_calls' = setup_calls \o <<"indices.exists", "indices.create">>
          /\ setup_pc' = "index_returned"
          /\ \/ index_exists' = TRUE /\ index_result' = "True"
             \/ index_exists' = FALSE /\ index_result' = "False"
          /\ UNCHANGED setup_exit
    /\ UNCHANGED <<kb_exists, ds_exists, kb_id, ds_id, summary_printed, setup_runs,
                   handler_vars, gateway_vars>>

\* Variant: the result of step 1 is not looked at.
IndexStepIgnored(result) == FALSE
\* if not create_opensearch_index(collection_endpoint, region):
IndexStepFailed(result) == result # "True"

\* Step 1 of main(): exit with status 1 when the index step failed.
AfterIndex ==
    /\ setup_pc = "index_returned"
    /\ IF IndexStepFailed(index_result)
       THEN SetupExit(1)
       ELSE setup_pc' = "knowledge_base" /\ UNCHANGED setup_exit
    /\ UNCHANGED <<index_exists, kb_exists, ds_exists, index_result, kb_id, ds_id,
                   setup_calls, summary_printed, setup_runs, handler_vars,
                   gateway_vars>>

\* create_knowledge_base(): the id of the knowledge base created, or None
\* when the call raised (a knowledge base of that name exists, or any other
\* fault); sts.get_caller_identity (before the try) may raise as well.
create_knowledge_base ==
    /\ setup_pc = "knowledge_base"
    /\ \/ /\ setup_calls' = Append(setup_calls, "get_caller_identity")
          /\ SetupCrash
          /\ UNCHANGED <<kb_exists, kb_id>>
       \/ /\ setup_calls' =
                setup_calls \o <<"get_caller_identity", "create_knowledge_base">>
          /\ setup_pc' = "knowledge_base_returned"
          /\ \/ ~kb_exists /\ kb_exists' = TRUE /\ kb_id' = KB_ID
             \/ kb_exists' = kb_exists /\ kb_id' = Null
          /\ UNCHANGED setup_exit
    /\ UNCHANGED <<index_exists, ds_exists, index_result, ds_id, summary_printed,
                   setup_runs, handler_vars, gateway_vars>>

\* Step 2 of main(): if not kb_id: sys.exit(1)
AfterKnowledgeBase ==
    /\ setup_pc = "knowledge_base_returned"
    /\ IF ~Truthy(kb_id)
       THEN SetupExit(1)
       ELSE setup_pc' = "data_source" /\ UNCHANGED setup_exit
    /\ UNCHANGED <<index_exists, kb_exists, ds_exists, index_result, kb_id, ds_id,
                   setup_calls, summary_printed, setup_runs, handler_vars,
                   gateway_vars>>

\* create_data_source(): the id of the data source created, or None when
\* the call raised.
create_data_source ==
    /\ setup_pc = "data_source"
    /\ setup_calls' = Append(setup_calls, "create_data_source")
    /\ setup_pc' = "data_source_returned"
    /\ \/ ~ds_exists /\ ds_exists' = TRUE /\ ds_id' = DS_ID
       \/ ds_exists' = ds_exists /\ ds_id' = Null
    /\ UNCHANGED <<index_exists, kb_exists, index_result, kb_id, summary_printed,
                   setup_exit, setup_runs, handler_vars, gateway_vars>>

\* Step 3 of main() and the success summary: if not ds_id: sys.exit(1);
\* otherwise the summary is printed and main() returns.
AfterDataSource ==
    /\ setup_pc = "data_source_returned"
    /\ IF ~Truthy(ds_id)
       THEN SetupExit(1) /\ UNCHANGED summary_printed
       ELSE SetupExit(0) /\ summary_printed' = TRUE
    /\ UNCHANGED <<index_exists, kb_exists, ds_exists, index_result, kb_id, ds_id,
                   setup_calls, setup_runs, handler_vars, gateway_vars>>

\* Accounts the setup script may meet: any of its resources may exist.
SetupInit ==
    /\ HandlerIdle /\ SetupIdle /\ GatewayIdle
    /\ index_exists \in BOOLEAN
    /\ kb_exists \in BOOLEAN
    /\ ds_exists \in {FALSE, kb_exists}
    /\ role = "absent"
    /\ role_policy = FALSE
    /\ gateways = {}
    /\ targets = {}

SetupNext ==
    \/ SetupStart
    \/ get_stack_outputs
    \/ create_opensearch_index
    \/ AfterIndex
    \/ create_knowledge_base
    \/ AfterKnowledgeBase
    \/ create_data_source
    \/ AfterDataSource

SetupSpec == SetupInit /\ [][SetupNext]_vars

\* -------------------------------------------------------- create_gateway.py
GATEWAY_NAME == "KnowledgeBaseGateway"
TARGET_NAME == "KnowledgeBaseProxyTarget"
ROLE_ARN == "arn:aws:iam::313117444016:role/AgentCoreGatewayServiceRole"
\* The id the service gives KnowledgeBaseGateway.
GATEWAY_ID == Str(<<"g", "w", "1">>)

\* The process ends with this status (sys.exit, or main() returning).
GatewayExit(status) ==
    /\ gateway_pc' = "exited"
    /\ gateway_exit' = status

\* An exception leaves main(): the handler of the script's last lines prints
\* it and exits with status 1.
GatewayCrash == GatewayExit(1)

\* python create_gateway.py: a run starts with fresh locals.
GatewayStart ==
    /\ gateway_pc \in {"idle", "exited"}
    /\ gateway_runs < MaxRuns
    /\ gateway_runs' = gateway_runs + 1
    /\ gateway_pc' = "get_role"
    /\ gateway_role_arn' = "unset"
    /\ gateway_id' = Null
    /\ listed' = {}
    /\ existing_targets' = {}
    /\ conflicts' = {}
    /\ gateway_calls' = <<>>
    /\ gateway_exit' = "running"
    /\ UNCHANGED <<role, role_policy, gateways, targets, handler_vars, setup_vars>>

\* create_gateway_role(), get_role: the role exists and its ARN is returned,
\* or NoSuchEntityException and the role is to be created; any other
\* exception leaves the function.
GetRole ==
    /\ gateway_pc = "get_role"
    /\ gateway_calls' = Append(gateway_calls, "get_role")
    /\ \/ /\ role # "absent"
          /\ gateway_role_arn' = ROLE_ARN
          /\ gateway_pc' = "list_gateways"
          /\ UNCHANGED gateway_exit
       \/ /\ role = "absent"
          /\ gateway_pc' = "create_role"
          /\ UNCHANGED <<gateway_role_arn, gateway_exit>>
       \/ GatewayCrash /\ UNCHANGED gateway_role_arn
    /\ UNCHANGED <<role, role_policy, gateways, targets, gateway_id, listed,
                   existing_targets, conflicts, gateway_runs, handler_vars,
                   setup_vars>>

\* create_gateway_role(), create_role: the role is created, without an
\* inline policy yet, or the call raises.
CreateRole ==
    /\ gateway_pc = "create_role"
    /\ gateway_calls' = Append(gateway_calls, "create_role")
    /\ \/ /\ role' = "script"
          /\ role_policy' = FALSE
          /\ gateway_pc' = "put_role_policy"
          /\ UNCHANGED gateway_exit
       \/ GatewayCrash /\ UNCHANGED <<role, role_policy>>
    /\ UNCHANGED <<gateways, targets, gateway_role_arn, gateway_id, listed,
                   existing_targets, conflicts, gateway_runs, handler_vars,
                   setup_vars>>

\* create_gateway_role(), put_role_policy and return role_arn: the inline
\* policy is attached and the ARN returned, or the call raises.
PutRolePolicy ==
    /\ gateway_pc = "put_role_policy"
    /\ gateway_calls' = Append(gateway_calls, "put_role_policy")
    /\ \/ /\ role_policy' = TRUE
          /\ gateway_role_arn' = ROLE_ARN
          /\ gateway_pc' = "list_gateways"
          /\ UNCHANGED gateway_exit
       \/ GatewayCrash /\ UNCHANGED <<role_policy, gateway_role_arn>>
    /\ UNCHANGED <<role, gateways, targets, gateway_id, listed, existing_targets,
                   conflicts, gateway_runs, handler_vars, setup_vars>>

\* for gateway in response.get('gateways', []): if gateway.get('name') == ...
GatewayIdIn(names) == IF GATEWAY_NAME \in names THEN GATEWAY_ID ELSE Null

\* Step 2: list_gateways reports gateways of the account (a page of them),
\* or raises and the exception is printed; gateway_id is the id of the
\* gateway named KnowledgeBaseGateway when it is reported.
ListGateways ==
    /\ gateway_pc = "list_gateways"
    /\ gateway_calls' = Append(gateway_calls, "list_gateways")
    /\ \E names \in SUBSET gateways :
          /\ listed' = names
          /\ gateway_id' = GatewayIdIn(names)
    /\ gateway_pc' = "create_gateway"
    /\ UNCHANGED <<role, role_policy, gateways, targets, gateway_role_arn,
                   existing_targets, conflicts, gateway_exit, gateway_runs,
                   handler_vars, setup_vars>>

\* Variant: the gateway is created whatever step 2 found.
GatewayAlwaysAbsent(id) == TRUE
\* if not gateway_id:
GatewayAbsent(id) == ~Truthy(id)

\* Step 3: when step 2 found no gateway id, create_gateway: the gateway is
\* created, or ConflictException (it exists) and the gateways are listed
\* again, or any other exception and sys.exit(1).
CreateGateway ==
    /\ gateway_pc = "create_gateway"
    /\ IF GatewayAbsent(gateway_id)
       THEN /\ gateway_calls' = Append(gateway_calls, "create_gateway")
            /\ \/ /\ GATEWAY_NAME \notin gateways
                  /\ gateways' = gateways \cup {GATEWAY_NAME}
                  /\ gateway_id' = GATEWAY_ID
                  /\ gateway_pc' = "check_id"
                  /\ UNCHANGED <<conflicts, gateway_exit>>
               \/ /\ GATEWAY_NAME \in gateways
                  /\ conflicts' = conflicts \cup {"create_gateway"}
                  /\ gateway_pc' = "list_again"
                  /\ UNCHANGED <<gateways, gateway_id, gateway_exit>>
               \/ /\ GatewayExit(1)
                  /\ UNCHANGED <<gateways, gateway_id, conflicts>>
       ELSE /\ gateway_pc' = "check_id"
            /\ UNCHANGED <<gateways, gateway_id, conflicts, gateway_calls,
                           gateway_exit>>
    /\ UNCHANGED <<role, role_policy, targets, gateway_role_arn, listed,
                   existing_targets, gateway_runs, handler_vars, setup_vars>>

\* Step 3, except ConflictException: the gateways are listed again for the
\* id; an exception of this call leaves main().
ListAgain ==
    /\ gateway_pc = "list_again"
    /\ gateway_calls' = Append(gateway_calls, "list_gateways")
    /\ \/ /\ \E names \in SUBSET gateways : gateway_id' = GatewayIdIn(names)
          /\ gateway_pc' = "check_id"
          /\ UNCHANGED gateway_exit
       \/ GatewayCrash /\ UNCHANGED gateway_id
    /\ UNCHANGED <<role, role_policy, gateways, targets, gateway_role_arn, listed,
                   existing_targets, conflicts, gateway_runs, handler_vars,
                   setup_vars>>

\* if not gateway_id: sys.exit(1)
CheckGatewayId ==
    /\ gateway_pc = "check_id"
    /\ IF ~Truthy(gateway_id)
       THEN GatewayExit(1)
       ELSE gateway_pc' = "get_gateway" /\ UNCHANGED gateway_exit
    /\ UNCHANGED <<role, role_policy, gateways, targets, gateway_role_arn,
                   gateway_id, listed, existing_targets, conflicts, gateway_calls,
                   gateway_runs, handler_vars, setup_vars>>

\* Step 4: get_gateway; its details are printed, or its exception is.
GetGateway ==
    /\ gateway_pc = "get_gateway"
    /\ gateway_calls' = Append(gateway_calls, "get_gateway")
    /\ gateway_pc' = "list_targets"
    /\ UNCHANGED <<role, role_policy, gateways, targets, gateway_role_arn,
                   gateway_id, listed, existing_targets, conflicts, gateway_exit,
                   gateway_runs, handler_vars, setup_vars>>

\* Step 5: list_gateway_targets reports targets of the gateway, or raises
\* and existing_targets stays empty.
ListTargets ==
    /\ gateway_pc = "list_targets"
    /\ gateway_calls' = Append(gateway_calls, "list_gateway_targets")
    /\ existing_targets' \in SUBSET targets
    /\ gateway_pc' = "create_target"
    /\ UNCHANGED <<role, role_policy, gateways, targets, gateway_role_arn,
                   gateway_id, listed, conflicts, gateway_exit, gateway_runs,
                   handler_vars, setup_vars>>

\* Step 6: unless the target was reported, create_gateway_target: the
\* target is created, or ConflictException (it exists), or any other
\* exception, printed; main() goes on to the summary in every case.
CreateTarget ==
    /\ gateway_pc = "create_target"
    /\ IF TARGET_NAME \in existing_targets
       THEN UNCHANGED <<targets, conflicts, gateway_calls>>
       ELSE /\ gateway_calls' = Append(gateway_calls, "create_gateway_target")
            /\ \/ /\ TARGET_NAME \notin targets
                  /\ targets' = targets \cup {TARGET_NAME}
                  /\ UNCHANGED conflicts
               \/ /\ TARGET_NAME \in targets
                  /\ conflicts' = conflicts \cup {"create_gateway_target"}
                  /\ UNCHANGED targets
               \/ UNCHANGED <<targets, conflicts>>
    /\ gateway_pc' = "summary"
    /\ UNCHANGED <<role, role_policy, gateways, gateway_role_arn, gateway_id,
                   listed, existing_targets, gateway_exit, gateway_runs,
                   handler_vars, setup_vars>>

\* The summary is printed and main() returns.
GatewaySummary ==
    /\ gateway_pc = "summary"
    /\ GatewayExit(0)
    /\ UNCHANGED <<role, role_policy, gateways, targets, gateway_role_arn,
                   gateway_id, listed, existing_targets, conflicts, gateway_calls,
                   gateway_runs, handler_vars, setup_vars>>

\* Accounts the gateway script may meet: the role may exist already (made
\* by someone else, with or without the inline policy), and so may gateways
\* and, under KnowledgeBaseGateway, targets.
GatewayInit ==
    /\ HandlerIdle /\ SetupIdle /\ GatewayIdle
    /\ index_exists = FALSE
    /\ kb_exists = FALSE
    /\ ds_exists = FALSE
    /\ role \in {"absent", "foreign"}
    /\ role_policy \in (IF role = "absent" THEN {FALSE} ELSE BOOLEAN)
    /\ gateways \in SUBSET {GATEWAY_NAME, "OtherGateway"}
    /\ targets \in (IF GATEWAY_NAME \in gateways
                    THEN SUBSET {TARGET_NAME, "OtherTarget"}
                    ELSE {{}})

GatewayNext ==
    \/ GatewayStart
    \/ GetRole
    \/ CreateRole
    \/ PutRolePolicy
    \/ ListGateways
    \/ CreateGateway
    \/ ListAgain
    \/ CheckGatewayId
    \/ GetGateway
    \/ ListTargets
    \/ CreateTarget
    \/ GatewaySummary

GatewaySpec == GatewayInit /\ [][GatewayNext]_vars

\* ==================================================================== claims
HandlerIds ==
    {"query_knowledge_base", "retrieve_and_generate", "list_sources",
     "get_knowledge_base_info"}
Returned == pc = "done"
Body == response.body
Success == BodyGet(Body, "success")

\* The key is present with a non-empty (truthy) value.
NonEmpty(e, key) == key \in DOMAIN e /\ Truthy(e[key])
\* Some tool-name key has a non-empty value; the first of them in the order
\* tool_name, name, toolName.
HasName(e) == \E key \in NameKeys : NonEmpty(e, key)
FirstNamed(e) ==
    IF NonEmpty(e, "tool_name") THEN e["tool_name"]
    ELSE IF NonEmpty(e, "name") THEN e["name"]
    ELSE e["toolName"]

\* C1: handler() always returns an envelope and lets no exception out; when
\* an exception was raised anywhere during the invocation (normalization,
\* dispatch, argument handling, the external call), the one envelope
\* returned has success = false in its decoded body.
C1_AlwaysEnvelope ==
    /\ ~propagated
    /\ Returned =>
        /\ response.statusCode # 0
        /\ "success" \in BodyKeys(Body)
        /\ (exc.type # "none" => Success = FALSE)

C1_Witness ==
    /\ Returned
    /\ exc.type = "AttributeError"
    /\ response.statusCode = INTERNAL_STATUS_CODE
    /\ Success = FALSE

\* C2: in the decoded body of every envelope returned, 'data' is present
\* iff success is true, 'error' is present iff success is false (so exactly
\* one of the two is present), and 'timestamp' is always present.
C2_DataXorError ==
    (Returned /\ response.statusCode # 0) =>
        /\ {"success", "timestamp"} \subseteq BodyKeys(Body)
        /\ ("data" \in BodyKeys(Body)) <=> (Success = TRUE)
        /\ ("error" \in BodyKeys(Body)) <=> (Success = FALSE)

C2_Witness ==
    /\ Returned
    /\ Success = TRUE
    /\ BodyKeys(Body) = {"success", "data", "timestamp"}
    /\ dispatched = "query_knowledge_base"

\* C3: on reaching the namespace step the tool name is the first non-empty
\* value among tool_name, name, toolName; the value of 'action' is the tool
\* name only when none of the three is non-empty; so with a non-empty name
\* key and a disagreeing 'action', the handler called is the one the name
\* key names (after prefix stripping), and an unknown name under a name key
\* is not rescued by 'action'.
C3_NamePrecedence ==
    /\ (pc = "namespace" /\ HasName(event)) => tool_name = FirstNamed(event)
    /\ (pc = "namespace" /\ ~HasName(event) /\ "action" \in DOMAIN event)
          => tool_name = event["action"]
    /\ (pc = "namespace" /\ ~HasName(event) /\ "action" \notin DOMAIN event)
          => ~Truthy(tool_name)
    /\ (dispatched # "none" /\ HasName(event) /\ "action" \in DOMAIN event) =>
          \A i \in DOMAIN HandlerNames :
              FirstNamed(event) \in {Str(HandlerNames[i]),
                                     Str(<<"T">> \o Delimiter \o HandlerNames[i])}
                  => dispatched = HandlerOf(HandlerNames[i])
    /\ (Returned /\ HasName(event) /\ "action" \in DOMAIN event
            /\ FirstNamed(event) = Str(S_frobnicate))
          => dispatched = "none"

C3_Witness ==
    /\ Returned
    /\ dispatched = "list_sources"
    /\ NonEmpty(event, "name")
    /\ event["name"] = Str(S_list_sources)
    /\ "action" \in DOMAIN event
    /\ event["action"] = Str(NamespacedQuery)

\* The first non-empty value among tool_input, input, arguments, toolInput,
\* and the empty mapping when there is none.
FirstInput(e) ==
    IF NonEmpty(e, "tool_input") THEN e["tool_input"]
    ELSE IF NonEmpty(e, "input") THEN e["input"]
    ELSE IF NonEmpty(e, "arguments") THEN e["arguments"]
    ELSE IF NonEmpty(e, "toolInput") THEN e["toolInput"]
    ELSE Map(EmptyMap)

\* C4: when the tool name comes from a name key, the handler called is
\* handed the first non-empty value among tool_input, input, arguments,
\* toolInput, and the empty mapping when none of them is present or
\* non-empty.
C4_InputPrecedence ==
    (dispatched # "none" /\ HasName(event) /\ Truthy(stripped))
        => tool_input = FirstInput(event)

\* The value of 'parameters', and the empty mapping when the key is absent.
ParametersOf(e) ==
    IF "parameters" \in DOMAIN e THEN e["parameters"] ELSE Map(EmptyMap)

\* C5: when no name key has a non-empty value and the event carries
\* 'action', the direct-invocation step makes the tool name the value of
\* 'action' and the arguments the value of 'parameters' (the empty mapping
\* when absent), whatever tool_input, input, arguments, toolInput hold; and
\* that is what the handler the action names is handed.
C5_ActionParameters ==
    /\ (pc = "namespace" /\ ~HasName(event) /\ "action" \in DOMAIN event)
          => (tool_name = event["action"] /\ tool_input = ParametersOf(event))
    /\ (dispatched # "none" /\ ~HasName(event) /\ "action" \in DOMAIN event
            /\ Truthy(stripped))
          => tool_input = ParametersOf(event)

C5_Witness ==
    /\ dispatched = "query_knowledge_base"
    /\ DOMAIN event = {"action", "parameters", "tool_input"}
    /\ event["action"] = Str(NamespacedQuery)
    /\ event["tool_input"] = ArgsQN
    /\ event["parameters"] = ArgsQ
    /\ tool_input = ArgsQ

\* The tool name as read from the event, before the namespace step.
RawName(e) ==
    IF HasName(e) THEN FirstNamed(e)
    ELSE IF "action" \in DOMAIN e THEN e["action"]
    ELSE Str(<<>>)
Namespaced(e) == RawName(e).k = "str" /\ ContainsDelimiter(RawName(e).s)

\* C6: whenever the resolved tool name contains '___', the name used for
\* dispatch is the substring after the last occurrence of '___'. Stated for
\* names that are non-empty after the namespace step, so that the inference
\* step does not intervene between that step and dispatch.
C6_AfterLastOccurrence ==
    (pc = "dispatch" /\ Namespaced(event) /\ Truthy(stripped))
        => tool_name = Str(AfterLastOccurrence(RawName(event).s))

\* No tool name was resolved by the name keys, 'action' and the namespace
\* step: tool_name is empty on reaching the inference step.
Unresolved == stripped.k # "unbound" /\ ~Truthy(stripped)
ErrorOf(r) == BodyGet(r.body, "error")
\* The envelope is the 'Unknown tool' client error.
IsUnknownTool(r) ==
    /\ r.statusCode = DEFAULT_STATUS_CODE
    /\ BodyGet(r.body, "success") = FALSE
    /\ ErrorOf(r).fmt = UnknownTool(Null).fmt

\* C7: when no tool name was resolved and the event has key 'query', the
\* handler called is retrieve_and_generate if the event also has
\* 'max_tokens' or 'temperature' and query_knowledge_base if it has
\* neither, and the handler is handed the entire event.
C7_ShapeInference ==
    (pc \in HandlerIds \cup {"done"} /\ Unresolved /\ "query" \in DOMAIN event) =>
        /\ dispatched =
              IF "max_tokens" \in DOMAIN event \/ "temperature" \in DOMAIN event
              THEN "retrieve_and_generate"
              ELSE "query_knowledge_base"
        /\ tool_input = Map(event)

C7_Witness ==
    /\ Returned
    /\ DOMAIN event = {"name", "query", "temperature"}
    /\ event["name"] = Str(<<>>)
    /\ dispatched = "retrieve_and_generate"
    /\ tool_input = Map(event)
    /\ calls = 1

NameKeysPresent(e) == DOMAIN e \cap (NameKeys \cup {"action"})

\* C8: an event with none of tool_name, name, toolName, action and no
\* 'query' (the empty event included) is handled by list_sources, handed
\* the entire event; an event without 'query' whose name keys are present
\* but all empty is not defaulted to list_sources: it is rejected as an
\* unknown tool.
C8_DefaultListSources ==
    /\ (pc \in HandlerIds \cup {"done"} /\ NameKeysPresent(event) = {}
            /\ "query" \notin DOMAIN event)
          => (dispatched = "list_sources" /\ tool_input = Map(event))
    /\ (Returned /\ NameKeysPresent(event) # {} /\ "query" \notin DOMAIN event
            /\ \A key \in NameKeysPresent(event) : ~Truthy(event[key]))
          => (dispatched = "none" /\ IsUnknownTool(response))

\* C9: when the resolved tool name is none of the four tool names (no
\* handler is called), no external call is issued and the envelope is the
\* 400 'Unknown tool' error, whose message carries the offending name and
\* the four valid names.
C9_UnknownTool400 ==
    (Returned /\ dispatched = "none") =>
        /\ calls = 0
        /\ request = NoRequest
        /\ IsUnknownTool(response)
        /\ ErrorOf(response).name = PyStr(tool_name)
        /\ ErrorOf(response).tools = HandlerNames

\* C10: normalization and dispatch end in one of two ways: one handler of
\* the table is called with the resolved arguments, or handler() returns
\* the 'Unknown tool' error.
C10_TwoOutcomes ==
    Returned =>
        \/ dispatched \in HandlerIds
        \/ (dispatched = "none" /\ IsUnknownTool(response))

\* ------------------------------------------------ arguments of the KB tools
KnowledgeBaseTools == {"query_knowledge_base", "retrieve_and_generate"}
\* The 'query' argument is missing, empty or whitespace-only.
BlankQuery(params) ==
    \/ "query" \notin DOMAIN params
    \/ (params["query"].k = "str" /\ Strip(params["query"].s) = <<>>)

\* C11: a call of query_knowledge_base or retrieve_and_generate whose
\* 'query' argument is missing, empty or whitespace-only is answered,
\* whatever its other arguments, with a 400 envelope that has success =
\* false and no 'data', and no call to the external service is issued.
C11_BlankQueryRejected ==
    (Returned /\ dispatched \in KnowledgeBaseTools /\ tool_input.k = "map"
        /\ BlankQuery(tool_input.m)) =>
        /\ response.statusCode = DEFAULT_STATUS_CODE
        /\ Success = FALSE
        /\ "data" \notin BodyKeys(Body)
        /\ calls = 0
        /\ request = NoRequest

\* C12: when query_knowledge_base sends its request, the result-count bound
\* in it is min(max_results, 25) if max_results was supplied and the default
\* 5 if it was not; it is never above 25.
C12_ResultLimit ==
    (Returned /\ dispatched = "query_knowledge_base" /\ request.api = "retrieve") =>
        LET params == tool_input.m
        IN  /\ "max_results" \in DOMAIN params =>
                request.numberOfResults =
                    (IF params["max_results"].n <= MAX_RESULTS_CAP
                     THEN params["max_results"].n ELSE MAX_RESULTS_CAP)
            /\ "max_results" \notin DOMAIN params =>
                request.numberOfResults = DEFAULT_MAX_RESULTS
            /\ request.numberOfResults <= MAX_RESULTS_CAP

C12_Witness ==
    /\ Returned
    /\ request.api = "retrieve"
    /\ "max_results" \in DOMAIN tool_input.m
    /\ tool_input.m["max_results"] = Num(999)
    /\ request.numberOfResults = MAX_RESULTS_CAP
    /\ Success = TRUE

\* C13: for every integer max_results the caller supplies, zero and
\* negative ones included, the number of results requested from the
\* retrieval service is in the advertised range 1..25.
C13_ResultRange ==
    (Returned /\ request.api = "retrieve") =>
        request.numberOfResults \in 1..MAX_RESULTS_CAP

\* C14: when retrieve_and_generate sends its request, the token bound in it
\* is min(max_tokens, 4096) if max_tokens was supplied and the default 2048
\* if not, the temperature is the supplied one or 0.7, and the model
\* identifier is the supplied model_arn or the configured one.
C14_GenerateRequest ==
    (Returned /\ dispatched = "retrieve_and_generate"
        /\ request.api = "retrieve_and_generate") =>
        LET params == tool_input.m
        IN  /\ request.maxTokens =
                (IF "max_tokens" \notin DOMAIN params THEN DEFAULT_MAX_TOKENS
                 ELSE IF params["max_tokens"].n <= MAX_TOKENS_CAP
                 THEN params["max_tokens"].n ELSE MAX_TOKENS_CAP)
            /\ request.temperature =
                (IF "temperature" \in DOMAIN params THEN params["temperature"]
                 ELSE Tenths(7))
            /\ request.modelArn =
                (IF "model_arn" \in DOMAIN params THEN params["model_arn"]
                 ELSE Str(MODEL_ARN))

C14_Witness ==
    /\ Returned
    /\ request.api = "retrieve_and_generate"
    /\ "max_tokens" \in DOMAIN tool_input.m
    /\ tool_input.m["max_tokens"] = Num(100000)
    /\ request.maxTokens = MAX_TOKENS_CAP
    /\ "temperature" \notin DOMAIN tool_input.m
    /\ request.temperature = Tenths(7)
    /\ Success = TRUE

\* --------------------------------------------------------- external calls
\* The handler's arguments pass its validation: there is none for
\* list_sources and get_knowledge_base_info; the two knowledge-base tools
\* want a mapping with a non-blank string 'query' and a numeric limit.
WellFormedLimit(params, key) == key \in DOMAIN params => params[key].k = "int"
ArgumentsPass ==
    \/ dispatched \in {"list_sources", "get_knowledge_base_info"}
    \/ /\ dispatched \in KnowledgeBaseTools
       /\ tool_input.k = "map"
       /\ "query" \in DOMAIN tool_input.m
       /\ tool_input.m["query"].k = "str"
       /\ Strip(tool_input.m["query"].s) # <<>>
       /\ WellFormedLimit(tool_input.m,
                          IF dispatched = "query_knowledge_base"
                          THEN "max_results" ELSE "max_tokens")

\* C15: during one invocation at most one external call is issued: exactly
\* one when a handler was dispatched and its arguments pass validation (also
\* when that call raised a fault: there is no retry), none when the tool is
\* unknown or validation fails.
C15_OneExternalCall ==
    /\ calls <= 1
    /\ (calls = 0) <=> (request = NoRequest)
    /\ Returned =>
        /\ (dispatched \in HandlerIds /\ ArgumentsPass) => calls = 1
        /\ (dispatched = "none" \/ ~ArgumentsPass) => calls = 0

C15_Witness ==
    /\ Returned
    /\ dispatched = "query_knowledge_base"
    /\ calls = 1
    /\ exc.type = "ThrottlingException"
    /\ reply = NoReply
    /\ Success = FALSE

\* ------------------------------------------------------------------ faults
\* The external call of this invocation raised.
CallRaised == calls = 1 /\ reply = NoReply /\ exc.type # "none"
ServiceBusy == Plain("Service is busy, please try again in a moment")

\* C16: the envelope has statusCode 429 exactly when the external call of
\* retrieve_and_generate raised the rate-limit fault, and its message is
\* then the fixed 'Service is busy' text whatever the fault's own text; a
\* rate-limit fault of another handler's call is not answered with 429.
C16_Throttled429 ==
    Returned =>
        /\ (response.statusCode = THROTTLED_STATUS_CODE) <=>
              (dispatched = "retrieve_and_generate" /\ CallRaised
                  /\ exc.type = "ThrottlingException")
        /\ response.statusCode = THROTTLED_STATUS_CODE =>
              ErrorOf(response) = ServiceBusy

C16_Witness ==
    /\ Returned
    /\ dispatched = "retrieve_and_generate"
    /\ exc = Exc("ThrottlingException", "slow down")
    /\ response.statusCode = THROTTLED_STATUS_CODE
    /\ ErrorOf(response) = ServiceBusy

\* The faults a handler has a clause of its own for, and the text its
\* catch-all clause puts before the fault's text.
MappedFaults(handler) ==
    CASE handler = "query_knowledge_base" ->
            {"ValidationException", "ResourceNotFoundException"}
      [] handler = "retrieve_and_generate" ->
            {"ValidationException", "ThrottlingException"}
      [] OTHER -> {}
GenericFailure(handler) ==
    CASE handler = "query_knowledge_base" ->
            "Failed to retrieve from knowledge base: {str(e)}"
      [] handler = "retrieve_and_generate" -> "Failed to generate response: {str(e)}"
      [] handler = "list_sources" -> "Failed to list sources: {str(e)}"
      [] OTHER -> "Failed to get knowledge base info: {str(e)}"

\* C17: when the external call of a handler raises a fault the handler has
\* no clause of its own for, the envelope is 400 and its message is the
\* handler's 'Failed to ...' text followed by the fault's text; the
\* malformed-request fault (both knowledge-base tools) and the not-found
\* fault (query_knowledge_base) also give 400, with the fault's text in the
\* message.
C17_FaultsAre400 ==
    (Returned /\ dispatched \in HandlerIds /\ CallRaised) =>
        /\ exc.type \notin MappedFaults(dispatched) =>
              /\ response.statusCode = DEFAULT_STATUS_CODE
              /\ ErrorOf(response) = WithDetail(GenericFailure(dispatched), exc.text)
        /\ (exc.type = "ValidationException" /\ dispatched \in KnowledgeBaseTools) =>
              /\ response.statusCode = DEFAULT_STATUS_CODE
              /\ ErrorOf(response) = WithDetail("Invalid request: {str(e)}", exc.text)
        /\ (exc.type = "ResourceNotFoundException"
                /\ dispatched = "query_knowledge_base") =>
              /\ response.statusCode = DEFAULT_STATUS_CODE
              /\ ErrorOf(response) =
                    WithDetail("Knowledge base not found: {str(e)}", exc.text)

C17_Witness ==
    /\ Returned
    /\ dispatched = "query_knowledge_base"
    /\ CallRaised
    /\ exc = Exc("ClientError", "access denied")
    /\ response.statusCode = DEFAULT_STATUS_CODE
    /\ ErrorOf(response).detail = "access denied"

\* C18: statusCode 500 is produced only for an exception raised outside any
\* tool handler; once a tool handler has been entered, every fault,
\* malformed arguments included, is answered with 400 (or 429), never 500.
C18_InternalOnlyOutsideHandlers ==
    Returned =>
        /\ response.statusCode = INTERNAL_STATUS_CODE => dispatched = "none"
        /\ dispatched \in HandlerIds =>
              response.statusCode \in
                  {OK_STATUS_CODE, DEFAULT_STATUS_CODE, THROTTLED_STATUS_CODE}

\* C19: in every envelope returned, statusCode is 200 iff success is true;
\* an error envelope carries 400 unless error_response was called with
\* another status (429 by retrieve_and_generate, 500 by the top-level
\* except); no other statusCode occurs; the headers are always
\* {Content-Type: application/json}.
C19_StatusCodes ==
    Returned =>
        /\ (response.statusCode = OK_STATUS_CODE) <=> (Success = TRUE)
        /\ response.statusCode \in
              {OK_STATUS_CODE, DEFAULT_STATUS_CODE, THROTTLED_STATUS_CODE,
               INTERNAL_STATUS_CODE}
        /\ (Success = FALSE /\ response.statusCode # DEFAULT_STATUS_CODE) =>
              \/ ErrorOf(response) = ServiceBusy
              \/ (exc.type # "none" /\ calls = 0
                    /\ ErrorOf(response) = WithDetail("{str(e)}", exc.text))
        /\ response.headers = [ContentType |-> "application/json"]

C19_Witness ==
    /\ Returned
    /\ response.statusCode = OK_STATUS_CODE
    /\ Success = TRUE
    /\ dispatched = "list_sources"
    /\ response.headers = [ContentType |-> "application/json"]

\* C20: extract_location is total: on every location of a retrieval result
\* or of a retrieved reference, one whose provider tag has a null or
\* non-mapping value or lacks the uri/url included, it returns and does not
\* raise.
C20_ExtractLocationTotal ==
    /\ (Returned /\ reply.api = "retrieve") =>
          \A i \in DOMAIN reply.value :
              ~extract_location(reply.value[i].location).raised
    /\ (Returned /\ reply.api = "retrieve_and_generate") =>
          \A i \in DOMAIN Flatten(reply.value.citations) :
              ~extract_location(Flatten(reply.value.citations)[i].location).raised

\* ------------------------------------------------------------ independence
\* This invocation has the event of the remembered one and got the same
\* answer (or the same fault) from the external service.
SameAsEarlier ==
    /\ earlier.seen
    /\ earlier.event = event
    /\ earlier.fault = ServiceFault
    /\ earlier.reply.api = reply.api
    /\ earlier.reply = reply

\* C21: invocations are independent. Whenever an invocation has the event
\* of an earlier one and the external service answers it as it answered
\* then, the envelope returned is, but for the timestamp, the one returned
\* then, whatever was processed before either of them and however it ended.
C21_Independent ==
    (Returned /\ SameAsEarlier) => WithoutTimestamp(response) = earlier.envelope

C21_Witness ==
    /\ Returned
    /\ SameAsEarlier
    /\ dispatched = "query_knowledge_base"
    /\ tool_name # Str(S_list_sources)
    /\ Success = TRUE
    /\ WithoutTimestamp(response) = earlier.envelope

\* --------------------------------------------------- the client's requests
\* e carries exactly a 'name' made of a target prefix and a tool name, and
\* 'arguments'; the tool it names.
TargetPrefixes == {TARGET_PREFIX, KB_TARGET_PREFIX}
CliCall(e) ==
    /\ DOMAIN e = {"name", "arguments"}
    /\ \E prefix \in TargetPrefixes : \E i \in DOMAIN HandlerNames :
          e["name"] = Str(prefix \o HandlerNames[i])
CliTool(e) ==
    HandlerNames[CHOOSE i \in DOMAIN HandlerNames :
                    \E prefix \in TargetPrefixes : e["name"] = Str(prefix \o HandlerNames[i])]

\* C22: an event carrying the 'name' (target prefix and tool name) and the
\* 'arguments' of a tools/call of the client is dispatched to exactly that
\* tool with exactly those arguments; when query_knowledge_base is called
\* so with a query alone, the request carries that query and max_results 5.
C22_CliCallDispatched ==
    (pc \in HandlerIds \cup {"done"} /\ CliCall(event)) =>
        /\ dispatched = HandlerOf(CliTool(event))
        /\ tool_input = event["arguments"]
        /\ (request.api = "retrieve"
              /\ "max_results" \notin DOMAIN event["arguments"].m) =>
                /\ request.text = event["arguments"].m["query"].s
                /\ request.numberOfResults = DEFAULT_MAX_RESULTS

C22_Witness ==
    /\ Returned
    /\ CliCall(event)
    /\ event["name"] = Str(KB_TARGET_PREFIX \o S_query_knowledge_base)
    /\ dispatched = "query_knowledge_base"
    /\ request.api = "retrieve"
    /\ request.text = S_q
    /\ request.numberOfResults = DEFAULT_MAX_RESULTS
    /\ Success = TRUE

\* ----------------------------------------------------------- the payloads
Data == BodyGet(Body, "data")
\* The known provider tags in the order of lookup, and the field read under
\* each.
KnownTags ==
    <<"s3Location", "webLocation", "confluenceLocation", "salesforceLocation",
      "sharePointLocation">>
FieldOf(tag) == IF tag = "s3Location" THEN "uri" ELSE "url"
KnownTagsOf(location) == {i \in DOMAIN KnownTags : KnownTags[i] \in DOMAIN location}
FirstTagOf(location) ==
    KnownTags[CHOOSE i \in KnownTagsOf(location) : \A j \in KnownTagsOf(location) : i <= j]
\* The first known tag of the location holds a mapping with the tag's field.
HasNestedField(location) ==
    /\ KnownTagsOf(location) # {}
    /\ location[FirstTagOf(location)].k = "map"
    /\ FieldOf(FirstTagOf(location)) \in DOMAIN location[FirstTagOf(location)].m

\* C23: in the results returned, the location of an item is the nested
\* field of its provider tag (s3Location.uri, or the url of webLocation,
\* confluenceLocation, salesforceLocation, sharePointLocation) when it has
\* one known tag holding that field, that of the first tag in this order
\* when it has several, and the rendering of the whole location object when
\* it has none of the known tags; items with the same location get the
\* same string.
C23_LocationMapping ==
    (Returned /\ Success = TRUE /\ reply.api = "retrieve") =>
        \A i \in DOMAIN reply.value :
            LET location == reply.value[i].location
                out == Data.results[i].location
            IN  /\ HasNestedField(location) =>
                    out = location[FirstTagOf(location)].m[FieldOf(FirstTagOf(location))]
                /\ KnownTagsOf(location) = {} => out = [str |-> location]
                /\ \A j \in DOMAIN reply.value :
                        reply.value[j].location = location =>
                            Data.results[j].location = out

C23_Witness ==
    /\ Returned
    /\ Success = TRUE
    /\ reply.api = "retrieve"
    /\ Len(reply.value) = 1
    /\ DOMAIN reply.value[1].location = {"s3Location", "webLocation"}
    /\ Data.results[1].location = "s3://b/k"

\* The number of references in the citation groups before group g.
RECURSIVE ReferencesBefore(_, _)
ReferencesBefore(groups, g) ==
    IF g = 1 THEN 0
    ELSE ReferencesBefore(groups, g - 1) + Len(groups[g - 1].retrievedReferences)

\* C24: in a retrieve_and_generate success payload, the citations are the
\* retrieved references of all citation groups, one entry each, in the
\* order of the service's answer; an entry's content is the excerpt
\* unchanged when it has at most 500 characters and its first 500
\* characters followed by '...' when it is longer; citation_count is the
\* length of the list.
C24_Citations ==
    (Returned /\ Success = TRUE /\ reply.api = "retrieve_and_generate") =>
        LET groups == reply.value.citations
        IN  /\ Len(Data.citations) = ReferencesBefore(groups, Len(groups) + 1)
            /\ Data.citation_count = Len(Data.citations)
            /\ \A g \in DOMAIN groups : \A r \in DOMAIN groups[g].retrievedReferences :
                  LET text == groups[g].retrievedReferences[r].content.text
                      content == Data.citations[ReferencesBefore(groups, g) + r].content
                  IN  /\ content.id = text.id
                      /\ text.len <= 500 =>
                            (content.len = text.len /\ ~content.ellipsis)
                      /\ text.len > 500 =>
                            (content.len = 500 /\ content.ellipsis)

C24_Witness ==
    /\ Returned
    /\ Success = TRUE
    /\ reply.api = "retrieve_and_generate"
    /\ Data.citation_count = 4
    /\ Data.citations[2].content = [id |-> "ref-3", len |-> 500, ellipsis |-> FALSE]
    /\ Data.citations[3].content = [id |-> "ref-4", len |-> 500, ellipsis |-> TRUE]

\* C25: when query_knowledge_base sends its request, a metadata filter
\* supplied in the arguments (any value but null, the empty mapping
\* included) is in the request unchanged, and the request carries no filter
\* when the argument is absent.
C25_FilterPassedThrough ==
    (Returned /\ dispatched = "query_knowledge_base" /\ request.api = "retrieve") =>
        LET params == tool_input.m
        IN  /\ ("filter" \in DOMAIN params /\ params["filter"].k # "null") =>
                (request.hasFilter /\ request.filter = params["filter"])
            /\ "filter" \notin DOMAIN params => ~request.hasFilter

\* C26: when the event is the arguments of a call alone, the handler
\* called is the tool the client named: for each advertised tool and each
\* argument set its input schema permits, an invocation with that argument
\* set as its event is handled by that tool.
C26_ForwardedDispatch ==
    \A tool \in DOMAIN TOOL_DEFINITIONS :
        (Returned /\ event \in SchemaArguments(tool)) => dispatched = tool

\* Some tool-name key or 'action' carries a non-empty value.
SuppliesName(e) == \E key \in NameKeysAndAction : NonEmpty(e, key)
\* The supplied name after prefix stripping.
NamedTool(e) ==
    IF Namespaced(e) THEN AfterLastOccurrence(RawName(e).s) ELSE RawName(e).s

\* C27: shape inference is applied only to events that supply no tool
\* name: when the event carries a non-empty name (a string) under
\* tool_name, name, toolName or action, the invocation ends with the handler
\* of that name, prefix stripped, or with the unknown-tool error, and never
\* with a handler chosen from 'query', 'max_tokens' or 'temperature'.
C27_NoInferenceForNamed ==
    (Returned /\ SuppliesName(event) /\ RawName(event).k = "str") =>
        \/ (dispatched = "none" /\ IsUnknownTool(response))
        \/ \E i \in DOMAIN HandlerNames :
              /\ NamedTool(event) = HandlerNames[i]
              /\ dispatched = HandlerOf(HandlerNames[i])

\* ------------------------------------------------------ deployment scripts
\* The service calls of a run, as a set.
Called(log) == {log[i] : i \in DOMAIN log}
\* The order of the service calls in setup_complete.main.
SetupOrder ==
    <<"describe_stacks", "indices.exists", "indices.create", "get_caller_identity",
      "create_knowledge_base", "create_data_source">>
PlaceIn(order, call) == CHOOSE i \in DOMAIN order : order[i] = call
InOrder(log, order) ==
    \A i, j \in DOMAIN log : i < j => PlaceIn(order, log[i]) < PlaceIn(order, log[j])

\* C28: setup_complete.main performs its steps in strict order and stops at
\* the first failure: create_knowledge_base is called only after
\* create_opensearch_index returned success (and the index exists),
\* create_data_source only after a knowledge base id was obtained, and when
\* a step failed the process exits with status 1, with no later step
\* attempted and no completion summary.
C28_StepsInOrder ==
    /\ InOrder(setup_calls, SetupOrder)
    /\ "create_knowledge_base" \in Called(setup_calls) =>
          (index_result = "True" /\ index_exists)
    /\ "create_data_source" \in Called(setup_calls) => Truthy(kb_id)
    /\ index_result = "False" =>
          /\ setup_pc \in {"index_returned", "exited"}
          /\ Called(setup_calls) \cap
                {"get_caller_identity", "create_knowledge_base", "create_data_source"} = {}
    /\ kb_id = Null =>
          /\ setup_pc \in {"knowledge_base_returned", "exited"}
          /\ "create_data_source" \notin Called(setup_calls)
    /\ ds_id = Null => setup_pc \in {"data_source_returned", "exited"}
    /\ (setup_pc = "exited"
            /\ (index_result = "False" \/ kb_id = Null \/ ds_id = Null)) =>
          (setup_exit = 1 /\ ~summary_printed)
    /\ summary_printed =>
          (index_result = "True" /\ Truthy(kb_id) /\ Truthy(ds_id) /\ setup_exit = 0)

C28_Witness ==
    /\ setup_pc = "exited"
    /\ setup_runs = 2
    /\ index_result = "True"
    /\ kb_id = Null
    /\ setup_calls =
          <<"describe_stacks", "indices.exists", "get_caller_identity",
            "create_knowledge_base">>
    /\ setup_exit = 1
    /\ ~summary_printed

\* C29: create_gateway.main is create-if-absent, over any number of runs
\* against an account: a run whose step-2 list_gateways reported a gateway
\* named KnowledgeBaseGateway never calls create_gateway, a run whose
\* list_gateway_targets reported KnowledgeBaseProxyTarget never calls
\* create_gateway_target, a conflict on creation is treated as 'already
\* exists' (the run goes on and, with the gateway id found, completes), and
\* the script is past step 3 only with a non-empty gateway id and exits with
\* status 1 otherwise.
C29_CreateIfAbsent ==
    /\ GATEWAY_NAME \in listed => "create_gateway" \notin Called(gateway_calls)
    /\ TARGET_NAME \in existing_targets =>
          "create_gateway_target" \notin Called(gateway_calls)
    /\ ("create_gateway" \in conflicts /\ gateway_pc = "exited"
            /\ Truthy(gateway_id)) => gateway_exit = 0
    /\ ("create_gateway_target" \in conflicts /\ gateway_pc = "exited") =>
          gateway_exit = 0
    /\ (gateway_pc \in {"get_gateway", "list_targets", "create_target", "summary"}
            \/ "get_gateway" \in Called(gateway_calls)) => Truthy(gateway_id)
    /\ (gateway_pc = "exited" /\ ~Truthy(gateway_id)) => gateway_exit = 1

C29_Witness ==
    /\ gateway_pc = "exited"
    /\ gateway_runs = 2
    /\ role = "script"
    /\ GATEWAY_NAME \in listed
    /\ TARGET_NAME \in existing_targets
    /\ gateway_calls = <<"get_role", "list_gateways", "get_gateway", "list_gateway_targets">>
    /\ gateway_exit = 0

\* C30: over any sequence of runs, whenever create_gateway_role has returned
\* the ARN of a role this script created, the role has the inline policy
\* AgentCoreGatewayPolicy attached.
C30_PolicyAttached ==
    (role = "script" /\ gateway_role_arn = ROLE_ARN) => role_policy

====
